---- MODULE Spec2Model ----
(***************************************************************************)
(* Budget routes of the trip planner (GET/POST/PATCH /trips/:tripId/budget) *)
(* together with the trip and itinerary handlers that create the rows the  *)
(* budget summary reads.  Database tables are sets of rows; every HTTP     *)
(* handler is one action.                                                  *)
(*                                                                         *)
(* Money: allocatedAmount, spentAmount, customCost and estimatedCost are   *)
(* whole currency units.  Number(decimal) of such a value is the same      *)
(* integer as a binary64, and sums and differences of them are exact in    *)
(* binary64, so they are integer + and -.  The quotient and the product in *)
(* the percentage are not exact and are computed as binary64 below.        *)
(***************************************************************************)
EXTENDS Integers, Sequences, FiniteSets, TLC

\* ------------------------------------------------------------------------
\* binary64 arithmetic as used by  Math.round((a / total) * 100)
\* A finite nonzero double is [neg, mant, exp] with value
\*   (-1)^neg * (2^52 + mant[1]*2^39 + mant[2]*2^26 + mant[3]*2^13 + mant[4])
\*            * 2^(exp - 52):
\* mant holds the 52 fraction bits of the significand as four digits of 13
\* bits, the leading 1 is implicit.  Zero is F64Zero.  The operands are
\* integers below 2^13 in magnitude, which keeps every intermediate value of
\* the digit arithmetic inside 32 bits.
\* ------------------------------------------------------------------------
Digit == 8192

Abs(n) == IF n < 0 THEN -n ELSE n

RECURSIVE Pow2(_)
Pow2(k) == IF k = 0 THEN 1 ELSE 2 * Pow2(k - 1)

\* floor(log2(n)) for n >= 1
RECURSIVE Log2(_)
Log2(n) == IF n < 2 THEN 0 ELSE 1 + Log2(n \div 2)

\* the least k with n * 2^k >= d  (0 < n < d)
RECURSIVE ShiftUp(_, _)
ShiftUp(n, d) == IF n >= d THEN 0 ELSE 1 + ShiftUp(2 * n, d)

F64Zero == [neg |-> FALSE, mant |-> <<0, 0, 0, 0>>, exp |-> -2000]

\* round-to-nearest, ties-to-even, of the significand 1.mant followed by a
\* guard bit and a sticky flag; carry = 1 when the significand rounds up to 2
RoundNearestEven(mant, guard, sticky) ==
    LET up == guard = 1 /\ (sticky \/ mant[4] % 2 = 1)
        s4 == mant[4] + (IF up THEN 1 ELSE 0)
        s3 == mant[3] + s4 \div Digit
        s2 == mant[2] + s3 \div Digit
        s1 == mant[1] + s2 \div Digit
    IN  [mant  |-> <<s1 % Digit, s2 % Digit, s3 % Digit, s4 % Digit>>,
         carry |-> s1 \div Digit]

\* the double nearest to a / t, for integers a and t > 0
F64Div(a, t) ==
    IF a = 0 THEN F64Zero
    ELSE LET m  == Abs(a)
             e  == IF m >= t THEN Log2(m \div t) ELSE -ShiftUp(m, t)
             \* n0 / d0 = (m / t) / 2^e is in [1, 2)
             n0 == IF e >= 0 THEN m ELSE m * Pow2(-e)
             d0 == IF e >= 0 THEN t * Pow2(e) ELSE t
             r0 == n0 - d0
             q1 == (r0 * Digit) \div d0
             r1 == (r0 * Digit) % d0
             q2 == (r1 * Digit) \div d0
             r2 == (r1 * Digit) % d0
             q3 == (r2 * Digit) \div d0
             r3 == (r2 * Digit) % d0
             q4 == (r3 * Digit) \div d0
             r4 == (r3 * Digit) % d0
             g  == IF 2 * r4 >= d0 THEN 1 ELSE 0
             r  == RoundNearestEven(<<q1, q2, q3, q4>>, g, 2 * r4 - g * d0 # 0)
         IN  [neg |-> a < 0, mant |-> r.mant, exp |-> e + r.carry]

\* the double nearest to x * c, for a double x and a natural c in 2..8191
F64MulInt(x, c) ==
    IF x = F64Zero THEN x
    ELSE LET \* the exact product top.p1.p2.p3.p4, top = leading digit
             v4  == x.mant[4] * c
             v3  == x.mant[3] * c + v4 \div Digit
             v2  == x.mant[2] * c + v3 \div Digit
             v1  == x.mant[1] * c + v2 \div Digit
             top == c + v1 \div Digit
             p1  == v1 % Digit
             p2  == v2 % Digit
             p3  == v3 % Digit
             p4  == v4 % Digit
             \* renormalise: shift right by s bits so that top becomes 1
             s   == Log2(top)
             w   == Pow2(s)
             m1  == ((top % w) * Digit + p1) \div w
             m2  == ((p1 % w) * Digit + p2) \div w
             m3  == ((p2 % w) * Digit + p3) \div w
             m4  == ((p3 % w) * Digit + p4) \div w
             low == p4 % w
             g   == IF 2 * low >= w THEN 1 ELSE 0
             r   == RoundNearestEven(<<m1, m2, m3, m4>>, g, 2 * low - g * w # 0)
         IN  [neg |-> x.neg, mant |-> r.mant, exp |-> x.exp + s + r.carry]

\* Math.round: the integer nearest to x, a tie going towards +Infinity
\* (for |x| < 2^14)
MathRound(x) ==
    IF x = F64Zero \/ x.exp < -1 THEN 0
    ELSE LET h     == (Digit + x.mant[1]) * Digit + x.mant[2]  \* top 27 bits
             shift == 26 - x.exp
             ip    == h \div Pow2(shift)
             half  == (h \div Pow2(shift - 1)) % 2
             rest  == h % Pow2(shift - 1) # 0 \/ x.mant[3] # 0 \/ x.mant[4] # 0
         IN  IF ~x.neg THEN ip + half
             ELSE -(ip + (IF half = 1 /\ rest THEN 1 ELSE 0))

\* ------------------------------------------------------------------------
\* Values and the catalogue
\* ------------------------------------------------------------------------
\* A nullable number (a nullable Decimal column, an optional number of a
\* request body) is NULL or Num(n); a request body is a record that has a
\* field exactly when the JSON body has it (body.x !== undefined).
NULL == << >>

Num(n) == <<n>>

\* Number(d) of a Decimal or number d
Number(d) == d[1]

Has(body, field) == field \in DOMAIN body

Users == {"u1", "u2"}

\* the budget categories of setBudgetSchema
Category ==
    <<"TRANSPORT", "ACCOMMODATION", "FOOD", "ACTIVITIES", "SHOPPING",
      "MISCELLANEOUS">>

Categories == {Category[i] : i \in 1..Len(Category)}

\* the values of Trip.status, and the status and orderIndex a row gets when
\* its creator gives none: the defaults of the columns
TripStatus ==
    {"DRAFT", "PLANNING", "CONFIRMED", "IN_PROGRESS", "COMPLETED", "CANCELLED"}

DefaultStatus == "DRAFT"

DefaultOrderIndex == 0

\* the seeded catalogue: cities, activities and their estimatedCost
CityIds == {"paris", "rome"}

ActivityIds == {"eiffel", "sensoji"}

estimatedCost == ("eiffel" :> 26) @@ ("sensoji" :> 0)

\* ------------------------------------------------------------------------
\* State: the database tables, the last request and its response, and the
\* rows the last budget summary read.
\*
\* tripBudgets and itineraryActivities are listed by findMany without an
\* orderBy, so each is kept as the sequence of its rows in the order a scan
\* of the table returns them: a created row goes to the end, an updated row
\* keeps its place.  Rows can be created one request at a time, so every
\* order of a trip's rows is reachable.
\* ------------------------------------------------------------------------
VARIABLES
    trips,                \* trip id -> [userId, name, description, startDate,
                          \*   endDate, totalBudget, coverPhotoUrl, status]
    itineraries,          \* rows [id, tripId, cityId, dayNumber, orderIndex]
    itineraryActivities,  \* rows [id, itineraryId, activityId, customCost, orderIndex]
    tripBudgets,          \* rows [tripId, category, allocatedAmount, spentAmount]
    sharedTrips,          \* rows [id, tripId, sharedById, sharedWithId,
                          \*   publicSlug, permission, expiresAt]
    nextId,               \* ids handed out so far to itinerary rows
    pending,              \* the requests in flight, each at one of its awaits
    request,              \* the last request: [route, userId, tripId]
    response,             \* its response
    budgets,              \* `budgets` of the last GET /budget, as read
    now                   \* the date, in days since the server started

db == <<trips, itineraries, itineraryActivities, tripBudgets, sharedTrips,
       nextId>>

vars == <<trips, itineraries, itineraryActivities, tripBudgets, sharedTrips,
          nextId, pending, request, response, budgets, now>>

NoRequest == [route |-> "", userId |-> "", tripId |-> ""]

NoResponse == [status |-> 0]

Init ==
    /\ trips = << >>
    /\ itineraries = {}
    /\ itineraryActivities = << >>
    /\ tripBudgets = << >>
    /\ sharedTrips = {}
    /\ nextId = 0
    /\ pending = {}
    /\ request = NoRequest
    /\ response = NoResponse
    /\ budgets = << >>
    /\ now = 0

\* ------------------------------------------------------------------------
\* Helpers of the handlers
\* ------------------------------------------------------------------------
\* the handler of `route` runs for the authenticated user and :tripId, from
\* its first line to its response, no other request in between
Handles(route, userId, tripId) ==
    /\ request' = [route |-> route, userId |-> userId, tripId |-> tripId]
    /\ UNCHANGED <<pending, now>>

\* sendError(res, error, statusCode)
sendError(error, statusCode) ==
    [status |-> statusCode, success |-> FALSE, error |-> error]

\* sendSuccess(res, data, message, statusCode) of the write handlers, whose
\* data is not modelled
sendSuccess(message, statusCode) ==
    [status |-> statusCode, success |-> TRUE, message |-> message]

\* prisma.trip.findFirst({ where: { id: tripId, userId } }); NoTrip is its
\* null result
NoTrip == [userId |-> "", totalBudget |-> NULL]

verifyTripOwnership(tripId, userId) ==
    IF tripId \in DOMAIN trips /\ trips[tripId].userId = userId
    THEN trips[tripId]
    ELSE NoTrip

\* prisma.tripBudget.findMany({ where: { tripId } })
FindManyBudgets(tripId) ==
    SelectSeq(tripBudgets, LAMBDA b : b.tripId = tripId)

\* prisma.itineraryActivity.findMany({ where: { itinerary: { tripId } } })
FindManyItineraryActivities(tripId) ==
    SelectSeq(itineraryActivities,
              LAMBDA ia : \E it \in itineraries :
                              it.id = ia.itineraryId /\ it.tripId = tripId)

\* JavaScript truthiness of a value read from a nullable money column.  The
\* columns are declared in the Prisma schema; the handlers wrap every one of
\* them in Number(...), as for Decimal columns, whose values are objects: an
\* object is truthy whatever its amount, null is falsy
Truthy(v) == v # NULL

\* reduce((sum, x) => sum + x, 0) over a list of numbers
RECURSIVE SumSeq(_)
SumSeq(s) == IF s = << >> THEN 0 ELSE SumSeq(SubSeq(s, 1, Len(s) - 1)) + s[Len(s)]

\* n.toFixed(2) of an integer n
ToFixed2(n) == ToString(n) \o ".00"

\* ------------------------------------------------------------------------
\* GET /trips/:tripId/budget
\* ------------------------------------------------------------------------
\* faulty variant of TotalAllocated: the reduce is seeded with the first row
\* and then runs over every row
TotalAllocatedSeeded(bs) ==
    SumSeq([i \in 1..Len(bs) |-> bs[i].allocatedAmount])
        + (IF bs = << >> THEN 0 ELSE bs[1].allocatedAmount)

TotalAllocated(bs) == SumSeq([i \in 1..Len(bs) |-> bs[i].allocatedAmount])

TotalSpent(bs) == SumSeq([i \in 1..Len(bs) |-> bs[i].spentAmount])

\* faulty variant of ActivityCost: the amount decides, so that a customCost
\* of 0 falls back to the catalogue
ActivityCostZeroAbsent(ia) ==
    IF Truthy(ia.customCost) /\ Number(ia.customCost) # 0
    THEN Number(ia.customCost)
    ELSE estimatedCost[ia.activityId]

ActivityCost(ia) ==
    IF Truthy(ia.customCost)
    THEN Number(ia.customCost)
    ELSE estimatedCost[ia.activityId]

ActivityCosts(ias) == SumSeq([i \in 1..Len(ias) |-> ActivityCost(ias[i])])

\* faulty variant of Percentage: the quotient is truncated, not rounded
PercentageTruncated(allocatedAmount, totalAllocated) ==
    IF totalAllocated > 0
    THEN (100 * allocatedAmount) \div totalAllocated
    ELSE 0

Percentage(allocatedAmount, totalAllocated) ==
    IF totalAllocated > 0
    THEN MathRound(F64MulInt(F64Div(allocatedAmount, totalAllocated), 100))
    ELSE 0

\* faulty variant of IsOverBudget: a category spent exactly is flagged too
IsOverBudgetOrEqual(spentAmount, allocatedAmount) ==
    spentAmount >= allocatedAmount

IsOverBudget(spentAmount, allocatedAmount) == spentAmount > allocatedAmount

\* faulty variant of Breakdown: the entries come out in reverse order
BreakdownReversed(bs) ==
    [i \in 1..Len(bs) |->
        LET b == bs[Len(bs) + 1 - i]
        IN  [category     |-> b.category,
             allocated    |-> b.allocatedAmount,
             spent        |-> b.spentAmount,
             percentage   |-> Percentage(b.allocatedAmount, TotalAllocated(bs)),
             isOverBudget |-> IsOverBudget(b.spentAmount, b.allocatedAmount)]]

Breakdown(bs) ==
    [i \in 1..Len(bs) |->
        [category     |-> bs[i].category,
         allocated    |-> bs[i].allocatedAmount,
         spent        |-> bs[i].spentAmount,
         percentage   |-> Percentage(bs[i].allocatedAmount, TotalAllocated(bs)),
         isOverBudget |-> IsOverBudget(bs[i].spentAmount, bs[i].allocatedAmount)]]

\* faulty variant of Warning: the difference is taken the wrong way round
WarningSwapped(b) ==
    b.category \o " is over budget by $" \o ToFixed2(b.allocated - b.spent)

Warning(b) ==
    b.category \o " is over budget by $" \o ToFixed2(b.spent - b.allocated)

OverBudgetWarnings(breakdown) ==
    LET over == SelectSeq(breakdown, LAMBDA b : b.isOverBudget)
    IN  [i \in 1..Len(over) |-> Warning(over[i])]

\* faulty variant of Remaining: an overspent budget is reported as 0
RemainingClamped(totalAllocated, totalSpent) ==
    IF totalSpent > totalAllocated THEN 0 ELSE totalAllocated - totalSpent

Remaining(totalAllocated, totalSpent) == totalAllocated - totalSpent

\* faulty variant of BudgetSummary: the activity costs are set against the
\* remaining budget
BudgetSummaryReconciled(trip, bs, ias) ==
    [totalBudget            |-> IF Truthy(trip.totalBudget)
                                THEN Num(Number(trip.totalBudget)) ELSE NULL,
     totalAllocated         |-> TotalAllocated(bs),
     totalSpent             |-> TotalSpent(bs),
     remaining              |-> Remaining(TotalAllocated(bs), TotalSpent(bs))
                                    - ActivityCosts(ias),
     estimatedActivityCosts |-> ActivityCosts(ias),
     breakdown              |-> Breakdown(bs),
     overBudgetWarnings     |-> OverBudgetWarnings(Breakdown(bs))]

BudgetSummary(trip, bs, ias) ==
    [totalBudget            |-> IF Truthy(trip.totalBudget)
                                THEN Num(Number(trip.totalBudget)) ELSE NULL,
     totalAllocated         |-> TotalAllocated(bs),
     totalSpent             |-> TotalSpent(bs),
     remaining              |-> Remaining(TotalAllocated(bs), TotalSpent(bs)),
     estimatedActivityCosts |-> ActivityCosts(ias),
     breakdown              |-> Breakdown(bs),
     overBudgetWarnings     |-> OverBudgetWarnings(Breakdown(bs))]

\* what the handler reads and answers
BudgetReply(userId, tripId) ==
    LET trip == verifyTripOwnership(tripId, userId)
        bs   == FindManyBudgets(tripId)
        ias  == FindManyItineraryActivities(tripId)
    IN  /\ Handles("GET /budget", userId, tripId)
        /\ IF trip = NoTrip
           THEN /\ response' = sendError("Trip not found", 404)
                /\ budgets' = << >>
           ELSE /\ budgets' = bs
                /\ response' = [status  |-> 200,
                                success |-> TRUE,
                                data    |-> BudgetSummary(trip, bs, ias)]

\* faulty variant of GetBudget: the total read is stored on the trip
GetBudgetStoringTotal(userId, tripId) ==
    /\ BudgetReply(userId, tripId)
    /\ trips' = IF verifyTripOwnership(tripId, userId) = NoTrip
                THEN trips
                ELSE [trips EXCEPT ![tripId].totalBudget =
                         Num(TotalAllocated(FindManyBudgets(tripId)))]
    /\ UNCHANGED <<itineraries, itineraryActivities, tripBudgets, sharedTrips, nextId>>

GetBudget(userId, tripId) ==
    /\ BudgetReply(userId, tripId)
    /\ UNCHANGED db

\* ------------------------------------------------------------------------
\* POST /trips/:tripId/budget
\* ------------------------------------------------------------------------
\* validate(setBudgetSchema): every category of the enum, every amount positive
ValidSetBudget(allocations) ==
    \A i \in 1..Len(allocations) :
        /\ allocations[i].category \in Categories
        /\ allocations[i].amount > 0

\* prisma.tripBudget.upsert({ where: { tripId_category }, update, create })
\* faulty variant of Upsert: the row of the key is replaced by the created one
UpsertReplacing(rows, tripId, alloc) ==
    LET created == [tripId          |-> tripId,
                    category        |-> alloc.category,
                    allocatedAmount |-> alloc.amount,
                    spentAmount     |-> 0]
    IN  IF \E i \in 1..Len(rows) :
               rows[i].tripId = tripId /\ rows[i].category = alloc.category
        THEN [i \in 1..Len(rows) |->
                 IF rows[i].tripId = tripId /\ rows[i].category = alloc.category
                 THEN created ELSE rows[i]]
        ELSE Append(rows, created)

Upsert(rows, tripId, alloc) ==
    IF \E i \in 1..Len(rows) :
           rows[i].tripId = tripId /\ rows[i].category = alloc.category
    THEN [i \in 1..Len(rows) |->
             IF rows[i].tripId = tripId /\ rows[i].category = alloc.category
             THEN [rows[i] EXCEPT !.allocatedAmount = alloc.amount]
             ELSE rows[i]]
    ELSE Append(rows, [tripId          |-> tripId,
                       category        |-> alloc.category,
                       allocatedAmount |-> alloc.amount,
                       spentAmount     |-> 0])

\* the upserts of one request; the requests modelled list each category at
\* most once, so the upserts touch different rows
RECURSIVE UpsertAll(_, _, _)
UpsertAll(rows, tripId, allocations) ==
    IF allocations = << >> THEN rows
    ELSE Upsert(UpsertAll(rows, tripId,
                          SubSeq(allocations, 1, Len(allocations) - 1)),
                tripId, allocations[Len(allocations)])

SetBudget(userId, tripId, allocations) ==
    /\ Handles("POST /budget", userId, tripId)
    /\ budgets' = << >>
    /\ IF ~ValidSetBudget(allocations)
       THEN /\ response' = sendError("Validation failed", 400)
            /\ UNCHANGED db
       ELSE IF verifyTripOwnership(tripId, userId) = NoTrip
       THEN /\ response' = sendError("Trip not found", 404)
            /\ UNCHANGED db
       ELSE /\ tripBudgets' = UpsertAll(tripBudgets, tripId, allocations)
            /\ response' = sendSuccess("Budget updated", 200)
            /\ UNCHANGED <<trips, itineraries, itineraryActivities, sharedTrips, nextId>>

\* ------------------------------------------------------------------------
\* PATCH /trips/:tripId/budget/:category   (the body is not validated)
\* ------------------------------------------------------------------------
PatchBudget(userId, tripId, category, body) ==
    /\ Handles("PATCH /budget/:category", userId, tripId)
    /\ budgets' = << >>
    /\ IF verifyTripOwnership(tripId, userId) = NoTrip
       THEN /\ response' = sendError("Trip not found", 404)
            /\ UNCHANGED db
       ELSE IF ~\E i \in 1..Len(tripBudgets) :
                    /\ tripBudgets[i].tripId = tripId
                    /\ tripBudgets[i].category = category
       THEN \* prisma.tripBudget.update throws, errorMiddleware answers
            /\ response' = sendError("Record to update not found", 500)
            /\ UNCHANGED db
       ELSE /\ tripBudgets' =
                [i \in 1..Len(tripBudgets) |->
                    IF /\ tripBudgets[i].tripId = tripId
                       /\ tripBudgets[i].category = category
                    THEN [tripBudgets[i] EXCEPT
                            !.allocatedAmount =
                                IF Has(body, "allocatedAmount")
                                THEN body.allocatedAmount ELSE @,
                            !.spentAmount =
                                IF Has(body, "spentAmount")
                                THEN body.spentAmount ELSE @]
                    ELSE tripBudgets[i]]
            /\ response' = sendSuccess("Budget updated", 200)
            /\ UNCHANGED <<trips, itineraries, itineraryActivities, sharedTrips, nextId>>

\* ------------------------------------------------------------------------
\* POST /trips
\* ------------------------------------------------------------------------
\* createTripSchema: name, startDate and endDate are required, totalBudget
\* is z.number().positive().optional()
ValidCreateTrip(body) ==
    /\ Has(body, "name") /\ body.name # ""
    /\ Has(body, "startDate")
    /\ Has(body, "endDate")
    /\ Has(body, "totalBudget") => body.totalBudget > 0

\* an optional field of a request body as stored in a nullable column
Optional(body, field) == IF Has(body, field) THEN <<body[field]>> ELSE NULL

\* id is the uuid the new row gets; no status is given, so the row gets the
\* column's default
CreateTrip(userId, id, body) ==
    /\ id \notin DOMAIN trips
    /\ Handles("POST /trips", userId, id)
    /\ budgets' = << >>
    /\ IF ~ValidCreateTrip(body)
       THEN /\ response' = sendError("Validation failed", 400)
            /\ UNCHANGED db
       ELSE /\ trips' = trips @@
                (id :> [userId        |-> userId,
                        name          |-> body.name,
                        description   |-> Optional(body, "description"),
                        startDate     |-> body.startDate,
                        endDate       |-> body.endDate,
                        totalBudget   |-> Optional(body, "totalBudget"),
                        coverPhotoUrl |-> Optional(body, "coverPhotoUrl"),
                        status        |-> DefaultStatus])
            /\ response' = sendSuccess("Trip created", 201)
            /\ UNCHANGED <<itineraries, itineraryActivities, tripBudgets, sharedTrips, nextId>>

\* ------------------------------------------------------------------------
\* POST /trips/:tripId/itinerary/days
\* ------------------------------------------------------------------------
AddDay(userId, tripId, body) ==
    /\ Handles("POST /itinerary/days", userId, tripId)
    /\ budgets' = << >>
    /\ IF body.dayNumber <= 0
       THEN /\ response' = sendError("Validation failed", 400)
            /\ UNCHANGED db
       ELSE IF verifyTripOwnership(tripId, userId) = NoTrip
       THEN /\ response' = sendError("Trip not found", 404)
            /\ UNCHANGED db
       ELSE IF body.cityId \notin CityIds
       THEN /\ response' = sendError("City not found", 404)
            /\ UNCHANGED db
       ELSE IF \E it \in itineraries :
                   it.tripId = tripId /\ it.dayNumber = body.dayNumber
       THEN /\ response' = sendError("Day number already exists", 409)
            /\ UNCHANGED db
       ELSE /\ itineraries' = itineraries \cup
                {[id |-> nextId + 1, tripId |-> tripId,
                  cityId |-> body.cityId, dayNumber |-> body.dayNumber,
                  orderIndex |-> DefaultOrderIndex]}
            /\ nextId' = nextId + 1
            /\ response' = sendSuccess("Day added", 201)
            /\ UNCHANGED <<trips, itineraryActivities, tripBudgets, sharedTrips>>

\* ------------------------------------------------------------------------
\* POST /trips/:tripId/itinerary/days/:dayId/activities
\* ------------------------------------------------------------------------
\* (maxOrder?.orderIndex ?? -1) + 1
NextOrderIndex(dayId) ==
    LET inDay == {itineraryActivities[i].orderIndex :
                     i \in {j \in 1..Len(itineraryActivities) :
                               itineraryActivities[j].itineraryId = dayId}}
    IN  IF inDay = {} THEN 0
        ELSE (CHOOSE m \in inDay : \A n \in inDay : n <= m) + 1

\* addItineraryActivitySchema: customCost is z.number().positive().optional()
AddActivity(userId, tripId, dayId, body) ==
    /\ Handles("POST /itinerary/days/:dayId/activities", userId, tripId)
    /\ budgets' = << >>
    /\ IF Has(body, "customCost") /\ body.customCost <= 0
       THEN /\ response' = sendError("Validation failed", 400)
            /\ UNCHANGED db
       ELSE IF verifyTripOwnership(tripId, userId) = NoTrip
       THEN /\ response' = sendError("Trip not found", 404)
            /\ UNCHANGED db
       ELSE IF ~\E it \in itineraries : it.id = dayId
       THEN /\ response' = sendError("Day not found", 404)
            /\ UNCHANGED db
       ELSE IF body.activityId \notin ActivityIds
       THEN /\ response' = sendError("Activity not found", 404)
            /\ UNCHANGED db
       ELSE /\ itineraryActivities' = Append(itineraryActivities,
                 [id          |-> nextId + 1,
                  itineraryId |-> dayId,
                  activityId  |-> body.activityId,
                  customCost  |-> IF Has(body, "customCost")
                                  THEN Num(body.customCost) ELSE NULL,
                  orderIndex  |-> NextOrderIndex(dayId)])
            /\ nextId' = nextId + 1
            /\ response' = sendSuccess("Activity added", 201)
            /\ UNCHANGED <<trips, itineraries, tripBudgets, sharedTrips>>

\* ------------------------------------------------------------------------
\* PATCH /trips/:tripId/itinerary/activities/:activityId
\* (the body is not validated; customCost may be Num(n), NULL or absent)
\* ------------------------------------------------------------------------
UpdateActivity(userId, tripId, id, body) ==
    /\ Handles("PATCH /itinerary/activities/:activityId", userId, tripId)
    /\ budgets' = << >>
    /\ IF verifyTripOwnership(tripId, userId) = NoTrip
       THEN /\ response' = sendError("Trip not found", 404)
            /\ UNCHANGED db
       ELSE IF ~\E i \in 1..Len(itineraryActivities) :
                    itineraryActivities[i].id = id
       THEN /\ response' = sendError("Record to update not found", 500)
            /\ UNCHANGED db
       ELSE /\ itineraryActivities' =
                [i \in 1..Len(itineraryActivities) |->
                    IF itineraryActivities[i].id = id /\ Has(body, "customCost")
                    THEN [itineraryActivities[i] EXCEPT
                            !.customCost = body.customCost]
                    ELSE itineraryActivities[i]]
            /\ response' = sendSuccess("Activity updated", 200)
            /\ UNCHANGED <<trips, itineraries, tripBudgets, sharedTrips, nextId>>

\* ------------------------------------------------------------------------
\* PATCH /trips/:id and DELETE /trips/:id
\* ------------------------------------------------------------------------
\* updateTripSchema is createTripSchema.partial()
ValidUpdateTrip(body) ==
    /\ Has(body, "name") => body.name # ""
    /\ Has(body, "totalBudget") => body.totalBudget > 0

\* data: req.body, the fields the schema parsed
UpdateTrip(userId, id, body) ==
    /\ Handles("PATCH /trips/:id", userId, id)
    /\ budgets' = << >>
    /\ IF ~ValidUpdateTrip(body)
       THEN /\ response' = sendError("Validation failed", 400)
            /\ UNCHANGED db
       ELSE IF verifyTripOwnership(id, userId) = NoTrip
       THEN /\ response' = sendError("Trip not found", 404)
            /\ UNCHANGED db
       ELSE /\ trips' = [trips EXCEPT ![id] =
                [f \in DOMAIN @ |->
                    IF ~Has(body, f) THEN @[f]
                    ELSE IF f \in {"description", "totalBudget", "coverPhotoUrl"}
                    THEN <<body[f]>>
                    ELSE body[f]]]
            /\ response' = sendSuccess("Trip updated", 200)
            /\ UNCHANGED <<itineraries, itineraryActivities, tripBudgets,
                           sharedTrips, nextId>>

\* the rows that belong to a trip
HasRows(id) ==
    \/ \E it \in itineraries : it.tripId = id
    \/ \E i \in 1..Len(tripBudgets) : tripBudgets[i].tripId = id
    \/ \E sh \in sharedTrips : sh.tripId = id

\* prisma.trip.delete({ where: { id } }).  What happens to the rows of the
\* trip is the referential action of their foreign keys, which the schema
\* declares: they are deleted with the trip, or they make the delete fail
DeleteTrip(userId, id) ==
    /\ Handles("DELETE /trips/:id", userId, id)
    /\ budgets' = << >>
    /\ IF verifyTripOwnership(id, userId) = NoTrip
       THEN /\ response' = sendError("Trip not found", 404)
            /\ UNCHANGED db
       ELSE \/ /\ trips' = [t \in DOMAIN trips \ {id} |-> trips[t]]
               /\ itineraries' = {it \in itineraries : it.tripId # id}
               /\ itineraryActivities' =
                      SelectSeq(itineraryActivities,
                          LAMBDA ia : ~\E it \in itineraries :
                                          it.id = ia.itineraryId /\ it.tripId = id)
               /\ tripBudgets' = SelectSeq(tripBudgets, LAMBDA b : b.tripId # id)
               /\ sharedTrips' = {sh \in sharedTrips : sh.tripId # id}
               /\ response' = sendSuccess("Trip deleted", 200)
               /\ UNCHANGED nextId
            \/ /\ HasRows(id)
               /\ response' = sendError("Foreign key constraint failed", 500)
               /\ UNCHANGED db

\* ------------------------------------------------------------------------
\* PATCH and DELETE /trips/:tripId/itinerary/days/:dayId
\* ------------------------------------------------------------------------
\* the row is found by its id alone; of the fields of the body only cityId
\* is a field of the rows modelled
UpdateDay(userId, tripId, dayId, body) ==
    /\ Handles("PATCH /itinerary/days/:dayId", userId, tripId)
    /\ budgets' = << >>
    /\ IF verifyTripOwnership(tripId, userId) = NoTrip
       THEN /\ response' = sendError("Trip not found", 404)
            /\ UNCHANGED db
       ELSE IF ~\E it \in itineraries : it.id = dayId
       THEN /\ response' = sendError("Record to update not found", 500)
            /\ UNCHANGED db
       ELSE IF Has(body, "cityId") /\ body.cityId \notin CityIds
       THEN /\ response' = sendError("Foreign key constraint failed", 500)
            /\ UNCHANGED db
       ELSE /\ itineraries' =
                {IF it.id = dayId /\ Has(body, "cityId")
                 THEN [it EXCEPT !.cityId = body.cityId]
                 ELSE it : it \in itineraries}
            /\ response' = sendSuccess("Day updated", 200)
            /\ UNCHANGED <<trips, itineraryActivities, tripBudgets,
                           sharedTrips, nextId>>

DeleteDay(userId, tripId, dayId) ==
    /\ Handles("DELETE /itinerary/days/:dayId", userId, tripId)
    /\ budgets' = << >>
    /\ IF verifyTripOwnership(tripId, userId) = NoTrip
       THEN /\ response' = sendError("Trip not found", 404)
            /\ UNCHANGED db
       ELSE IF ~\E it \in itineraries : it.id = dayId
       THEN /\ response' = sendError("Record to delete does not exist", 500)
            /\ UNCHANGED db
       ELSE \/ /\ itineraries' = {it \in itineraries : it.id # dayId}
               /\ itineraryActivities' =
                      SelectSeq(itineraryActivities,
                                LAMBDA ia : ia.itineraryId # dayId)
               /\ response' = sendSuccess("Day removed", 200)
               /\ UNCHANGED <<trips, tripBudgets, sharedTrips, nextId>>
            \/ /\ \E i \in 1..Len(itineraryActivities) :
                      itineraryActivities[i].itineraryId = dayId
               /\ response' = sendError("Foreign key constraint failed", 500)
               /\ UNCHANGED db

\* ------------------------------------------------------------------------
\* DELETE /trips/:tripId/itinerary/activities/:activityId
\* ------------------------------------------------------------------------
DeleteActivity(userId, tripId, id) ==
    /\ Handles("DELETE /itinerary/activities/:activityId", userId, tripId)
    /\ budgets' = << >>
    /\ IF verifyTripOwnership(tripId, userId) = NoTrip
       THEN /\ response' = sendError("Trip not found", 404)
            /\ UNCHANGED db
       ELSE IF ~\E i \in 1..Len(itineraryActivities) :
                    itineraryActivities[i].id = id
       THEN /\ response' = sendError("Record to delete does not exist", 500)
            /\ UNCHANGED db
       ELSE /\ itineraryActivities' =
                SelectSeq(itineraryActivities, LAMBDA ia : ia.id # id)
            /\ response' = sendSuccess("Activity removed", 200)
            /\ UNCHANGED <<trips, itineraries, tripBudgets, sharedTrips,
                           nextId>>

\* ------------------------------------------------------------------------
\* PATCH /trips/:tripId/itinerary/reorder
\* (the requests modelled name at most one day and at most one activity; the
\* days are updated before the activities, each row found by its id alone)
\* ------------------------------------------------------------------------
Reorder(userId, tripId, body) ==
    LET days       == IF Has(body, "days") THEN body.days ELSE << >>
        activities == IF Has(body, "activities") THEN body.activities ELSE << >>
        reordered  ==
            {IF days # << >> /\ it.id = days[1].id
             THEN [it EXCEPT !.orderIndex = days[1].orderIndex]
             ELSE it : it \in itineraries}
    IN  /\ Len(days) <= 1 /\ Len(activities) <= 1
        /\ Handles("PATCH /itinerary/reorder", userId, tripId)
        /\ budgets' = << >>
        /\ IF verifyTripOwnership(tripId, userId) = NoTrip
           THEN /\ response' = sendError("Trip not found", 404)
                /\ UNCHANGED db
           ELSE IF days # << >> /\ ~\E it \in itineraries : it.id = days[1].id
           THEN /\ response' = sendError("Record to update not found", 500)
                /\ UNCHANGED db
           ELSE IF /\ activities # << >>
                   /\ ~\E i \in 1..Len(itineraryActivities) :
                          itineraryActivities[i].id = activities[1].id
           THEN /\ itineraries' = reordered
                /\ response' = sendError("Record to update not found", 500)
                /\ UNCHANGED <<trips, itineraryActivities, tripBudgets,
                               sharedTrips, nextId>>
           ELSE /\ itineraries' = reordered
                /\ itineraryActivities' =
                    [i \in 1..Len(itineraryActivities) |->
                        IF /\ activities # << >>
                           /\ itineraryActivities[i].id = activities[1].id
                        THEN [itineraryActivities[i] EXCEPT
                                !.orderIndex = activities[1].orderIndex]
                        ELSE itineraryActivities[i]]
                /\ response' = sendSuccess("Reorder complete", 200)
                /\ UNCHANGED <<trips, tripBudgets, sharedTrips, nextId>>

\* ------------------------------------------------------------------------
\* POST /trips/:id/duplicate and POST /sharing/:slug/copy
\* ------------------------------------------------------------------------
\* the rows of a set in the order of their ids, the order they were created in
RECURSIVE ById(_)
ById(rows) ==
    IF rows = {} THEN << >>
    ELSE LET last == CHOOSE r \in rows : \A q \in rows : q.id <= r.id
         IN  Append(ById(rows \ {last}), last)

\* include: { itineraries: { include: { activities: true } }, budgets: true }
\* of the trip row `trip` with the id tripId
Include(tripId, trip) ==
    [trip        |-> trip,
     itineraries |->
        LET days == ById({it \in itineraries : it.tripId = tripId})
        IN  [k \in 1..Len(days) |->
                [id         |-> days[k].id,
                 cityId     |-> days[k].cityId,
                 dayNumber  |-> days[k].dayNumber,
                 orderIndex |-> days[k].orderIndex,
                 activities |-> SelectSeq(itineraryActivities,
                                    LAMBDA ia : ia.itineraryId = days[k].id)]],
     budgets     |-> FindManyBudgets(tripId)]

\* faulty variant of ActivitiesFrom: only the activities of the first of
\* the days are taken
ActivitiesFromOneDay(days, k) ==
    IF k > Len(days) THEN << >>
    ELSE [i \in 1..Len(days[k].activities) |->
             [day |-> k, act |-> days[k].activities[i]]]

\* the activities of the days k.. of an included trip, each with the number
\* of its day
RECURSIVE ActivitiesFrom(_, _)
ActivitiesFrom(days, k) ==
    IF k > Len(days) THEN << >>
    ELSE [i \in 1..Len(days[k].activities) |->
             [day |-> k, act |-> days[k].activities[i]]]
         \o ActivitiesFrom(days, k + 1)

\* faulty variant of CopiedTrip: the copy stays with the owner of the source
CopiedTripOfSourceOwner(userId, name, original) ==
    [userId        |-> original.trip.userId,
     name          |-> name,
     description   |-> original.trip.description,
     startDate     |-> original.trip.startDate,
     endDate       |-> original.trip.endDate,
     totalBudget   |-> original.trip.totalBudget,
     coverPhotoUrl |-> original.trip.coverPhotoUrl,
     status        |-> "DRAFT"]

\* faulty variant of CopiedTrip: the status is copied with the other fields
CopiedTripKeepingStatus(userId, name, original) ==
    [userId        |-> userId,
     name          |-> name,
     description   |-> original.trip.description,
     startDate     |-> original.trip.startDate,
     endDate       |-> original.trip.endDate,
     totalBudget   |-> original.trip.totalBudget,
     coverPhotoUrl |-> original.trip.coverPhotoUrl,
     status        |-> original.trip.status]

\* the data of the new trip row
CopiedTrip(userId, name, original) ==
    [userId        |-> userId,
     name          |-> name,
     description   |-> original.trip.description,
     startDate     |-> original.trip.startDate,
     endDate       |-> original.trip.endDate,
     totalBudget   |-> original.trip.totalBudget,
     coverPhotoUrl |-> original.trip.coverPhotoUrl,
     status        |-> "DRAFT"]

\* itineraries: { create: original.itineraries.map(...) }: the row of the
\* included day `it`, with the new id `id`
CopiedDay(id, newId, it) ==
    [id         |-> id,
     tripId     |-> newId,
     cityId     |-> it.cityId,
     dayNumber  |-> it.dayNumber,
     orderIndex |-> it.orderIndex]

\* faulty variant of CopiedActivity: the row keeps the day of its source
CopiedActivityOfSourceDay(id, itineraryId, act) ==
    [id          |-> id,
     itineraryId |-> act.itineraryId,
     activityId  |-> act.activityId,
     customCost  |-> act.customCost,
     orderIndex  |-> act.orderIndex]

\* activities: { create: it.activities.map(...) }: the row of the activity
\* `act`, with the new id `id`, under the new day itineraryId
CopiedActivity(id, itineraryId, act) ==
    [id          |-> id,
     itineraryId |-> itineraryId,
     activityId  |-> act.activityId,
     customCost  |-> act.customCost,
     orderIndex  |-> act.orderIndex]

\* faulty variant of CopiedBudget: the amount spent is copied too
CopiedBudgetWithSpend(newId, b) ==
    [tripId          |-> newId,
     category        |-> b.category,
     allocatedAmount |-> b.allocatedAmount,
     spentAmount     |-> b.spentAmount]

\* budgets: { create: original.budgets.map(...) }
CopiedBudget(newId, b) ==
    [tripId          |-> newId,
     category        |-> b.category,
     allocatedAmount |-> b.allocatedAmount,
     spentAmount     |-> 0]

\* faulty variant of TripCreateNested: the trip row and its allocations are
\* created, the days are left to later calls
TripCreateFlat(userId, newId, name, original) ==
    /\ trips' = trips @@ (newId :> CopiedTrip(userId, name, original))
    /\ tripBudgets' = tripBudgets \o
        [j \in 1..Len(original.budgets) |->
            CopiedBudget(newId, original.budgets[j])]
    /\ UNCHANGED <<itineraries, itineraryActivities, sharedTrips, nextId>>

\* faulty variant of TripCreateNested: the days of the source are connected
\* to the new trip, not created
TripCreateConnecting(userId, newId, name, original) ==
    LET days == original.itineraries
    IN  /\ trips' = trips @@ (newId :> CopiedTrip(userId, name, original))
        /\ itineraries' =
            {IF it.id \in {days[k].id : k \in 1..Len(days)}
             THEN [it EXCEPT !.tripId = newId]
             ELSE it : it \in itineraries}
        /\ tripBudgets' = tripBudgets \o
            [j \in 1..Len(original.budgets) |->
                CopiedBudget(newId, original.budgets[j])]
        /\ UNCHANGED <<itineraryActivities, sharedTrips, nextId>>

\* prisma.trip.create({ data: { ..., itineraries: { create }, budgets:
\* { create } } }): the trip row newId and its nested rows, written in one
\* transaction; every created day and activity gets a new id
TripCreateNested(userId, newId, name, original) ==
    LET days == original.itineraries
        acts == ActivitiesFrom(days, 1)
    IN  /\ trips' = trips @@ (newId :> CopiedTrip(userId, name, original))
        /\ itineraries' = itineraries \cup
            {CopiedDay(nextId + k, newId, days[k]) : k \in 1..Len(days)}
        /\ itineraryActivities' = itineraryActivities \o
            [i \in 1..Len(acts) |->
                CopiedActivity(nextId + Len(days) + i, nextId + acts[i].day,
                               acts[i].act)]
        /\ tripBudgets' = tripBudgets \o
            [j \in 1..Len(original.budgets) |->
                CopiedBudget(newId, original.budgets[j])]
        /\ nextId' = nextId + Len(days) + Len(acts)
        /\ UNCHANGED sharedTrips

\* faulty variant of Duplicate: a second trip of the same name is refused
DuplicateOnce(userId, id, newId) ==
    /\ newId \notin DOMAIN trips
    /\ Handles("POST /trips/:id/duplicate", userId, id)
    /\ budgets' = << >>
    /\ IF verifyTripOwnership(id, userId) = NoTrip
       THEN /\ response' = sendError("Trip not found", 404)
            /\ UNCHANGED db
       ELSE IF \E t \in DOMAIN trips : trips[t].name = trips[id].name \o " (Copy)"
       THEN /\ response' = sendError("Trip already duplicated", 409)
            /\ UNCHANGED db
       ELSE /\ TripCreateNested(userId, newId, trips[id].name \o " (Copy)",
                                Include(id, trips[id]))
            /\ response' = sendSuccess("Trip duplicated", 201) @@ [id |-> newId]

\* faulty variant of Duplicate: the trip is found by its id alone
DuplicateOfAnyone(userId, id, newId) ==
    /\ newId \notin DOMAIN trips
    /\ Handles("POST /trips/:id/duplicate", userId, id)
    /\ budgets' = << >>
    /\ IF id \notin DOMAIN trips
       THEN /\ response' = sendError("Trip not found", 404)
            /\ UNCHANGED db
       ELSE /\ TripCreateNested(userId, newId, trips[id].name \o " (Copy)",
                                Include(id, trips[id]))
            /\ response' = sendSuccess("Trip duplicated", 201) @@ [id |-> newId]

\* the response carries the new trip row, of which its id is modelled
Duplicate(userId, id, newId) ==
    /\ newId \notin DOMAIN trips
    /\ Handles("POST /trips/:id/duplicate", userId, id)
    /\ budgets' = << >>
    /\ IF verifyTripOwnership(id, userId) = NoTrip
       THEN /\ response' = sendError("Trip not found", 404)
            /\ UNCHANGED db
       ELSE /\ TripCreateNested(userId, newId, trips[id].name \o " (Copy)",
                                Include(id, trips[id]))
            /\ response' = sendSuccess("Trip duplicated", 201) @@ [id |-> newId]

\* ------------------------------------------------------------------------
\* POST /sharing/trips/:tripId/share
\* ------------------------------------------------------------------------
SharePermission == {"VIEW_ONLY", "CAN_EDIT", "CAN_COPY"}

\* createShareSchema
ValidCreateShare(body) ==
    /\ Has(body, "permission") => body.permission \in SharePermission
    /\ Has(body, "expiresInDays") => body.expiresInDays > 0

\* publicSlug is randomBytes(8).toString("hex"), and names the new row;
\* sharedWithEmail is given as the user it belongs to
CreateShare(userId, tripId, body, publicSlug) ==
    /\ \A sh \in sharedTrips : sh.publicSlug # publicSlug
    /\ Handles("POST /sharing/trips/:tripId/share", userId, tripId)
    /\ budgets' = << >>
    /\ IF ~ValidCreateShare(body)
       THEN /\ response' = sendError("Validation failed", 400)
            /\ UNCHANGED db
       ELSE IF verifyTripOwnership(tripId, userId) = NoTrip
       THEN /\ response' = sendError("Trip not found", 404)
            /\ UNCHANGED db
       ELSE IF Has(body, "sharedWithEmail") /\ body.sharedWithEmail \notin Users
       THEN /\ response' = sendError("User not found", 404)
            /\ UNCHANGED db
       ELSE /\ sharedTrips' = sharedTrips \cup
                {[id           |-> publicSlug,
                  tripId       |-> tripId,
                  sharedById   |-> userId,
                  sharedWithId |-> Optional(body, "sharedWithEmail"),
                  publicSlug   |-> publicSlug,
                  permission   |-> IF Has(body, "permission")
                                   THEN body.permission ELSE "VIEW_ONLY",
                  expiresAt    |-> IF Has(body, "expiresInDays")
                                   THEN Num(now + body.expiresInDays)
                                   ELSE NULL]}
            /\ response' = sendSuccess("Share link created", 201)
            /\ UNCHANGED <<trips, itineraries, itineraryActivities,
                           tripBudgets, nextId>>

\* faulty variant of RevokeShare: the share is answered as revoked and kept
RevokeShareKeepingRow(userId, tripId, shareId) ==
    /\ Handles("DELETE /sharing/trips/:tripId/share/:shareId", userId, tripId)
    /\ budgets' = << >>
    /\ response' = IF verifyTripOwnership(tripId, userId) = NoTrip
                   THEN sendError("Trip not found", 404)
                   ELSE sendSuccess("Share revoked", 200)
    /\ UNCHANGED db

\* DELETE /sharing/trips/:tripId/share/:shareId: the share is found by its id
\* alone
RevokeShare(userId, tripId, shareId) ==
    /\ Handles("DELETE /sharing/trips/:tripId/share/:shareId", userId, tripId)
    /\ budgets' = << >>
    /\ IF verifyTripOwnership(tripId, userId) = NoTrip
       THEN /\ response' = sendError("Trip not found", 404)
            /\ UNCHANGED db
       ELSE IF ~\E sh \in sharedTrips : sh.id = shareId
       THEN \* prisma.sharedTrip.delete throws, errorMiddleware answers
            /\ response' = sendError("Record to delete does not exist", 500)
            /\ UNCHANGED db
       ELSE /\ sharedTrips' = {sh \in sharedTrips : sh.id # shareId}
            /\ response' = sendSuccess("Share revoked", 200)
            /\ UNCHANGED <<trips, itineraries, itineraryActivities,
                           tripBudgets, nextId>>

\* prisma.sharedTrip.findUnique({ where: { publicSlug: slug } })
SharesOf(slug) == {sh \in sharedTrips : sh.publicSlug = slug}

\* faulty variant of CopyShared: the permission of the share is not looked at
CopySharedWhateverPermission(userId, slug, newId) ==
    /\ newId \notin DOMAIN trips
    /\ Handles("POST /sharing/:slug/copy", userId, slug)
    /\ budgets' = << >>
    /\ IF SharesOf(slug) = {}
       THEN /\ response' = sendError("Shared trip not found", 404)
            /\ UNCHANGED db
       ELSE LET share == CHOOSE sh \in SharesOf(slug) : TRUE
            IN  /\ TripCreateNested(userId, newId,
                       trips[share.tripId].name \o " (Copied)",
                       Include(share.tripId, trips[share.tripId]))
                /\ response' = sendSuccess("Trip copied successfully", 201)
                                   @@ [id |-> newId]

CopyShared(userId, slug, newId) ==
    /\ newId \notin DOMAIN trips
    /\ Handles("POST /sharing/:slug/copy", userId, slug)
    /\ budgets' = << >>
    /\ IF SharesOf(slug) = {}
       THEN /\ response' = sendError("Shared trip not found", 404)
            /\ UNCHANGED db
       ELSE LET share == CHOOSE sh \in SharesOf(slug) : TRUE
            IN  IF share.permission = "VIEW_ONLY"
                THEN /\ response' = sendError("Copy not allowed for this share", 403)
                     /\ UNCHANGED db
                ELSE /\ TripCreateNested(userId, newId,
                            trips[share.tripId].name \o " (Copied)",
                            Include(share.tripId, trips[share.tripId]))
                     /\ response' = sendSuccess("Trip copied successfully", 201)
                                        @@ [id |-> newId]

\* ------------------------------------------------------------------------
\* GET /sharing/:slug and the authentication of the sharing routes
\* ------------------------------------------------------------------------
\* the requester of a request without a Bearer token: req.user is undefined
Anonymous == ""

\* a day passes
Tick ==
    /\ now' = now + 1
    /\ UNCHANGED <<db, pending, request, response, budgets>>

\* share.expiresAt && new Date() > share.expiresAt
Expired(share) == share.expiresAt # NULL /\ now > Number(share.expiresAt)

\* share.sharedWithId && req.user?.id !== share.sharedWithId
ForAnother(share, userId) ==
    share.sharedWithId # NULL /\ <<userId>> # share.sharedWithId

\* canCopy: share.permission !== "VIEW_ONLY" || req.user !== undefined
canCopy(share, userId) ==
    share.permission # "VIEW_ONLY" \/ userId # Anonymous

\* the response of GET /:slug to userId; of the data, permission and canCopy
\* are modelled
ViewResponse(userId, slug) ==
    IF SharesOf(slug) = {}
    THEN sendError("Shared trip not found", 404)
    ELSE LET share == CHOOSE sh \in SharesOf(slug) : TRUE
         IN  IF Expired(share)
             THEN sendError("Share link has expired", 410)
             ELSE IF ForAnother(share, userId)
             THEN sendError("Not authorized to view this trip", 403)
             ELSE [status     |-> 200,
                   success    |-> TRUE,
                   permission |-> share.permission,
                   canCopy    |-> canCopy(share, userId)]

\* optionalAuthMiddleware lets every requester in
ViewShared(userId, slug) ==
    /\ Handles("GET /sharing/:slug", userId, slug)
    /\ budgets' = << >>
    /\ response' = ViewResponse(userId, slug)
    /\ UNCHANGED db

\* POST /:slug/copy behind authMiddleware, which answers a request without a
\* token itself
CopySharedRequest(userId, slug, newId) ==
    IF userId = Anonymous
    THEN /\ Handles("POST /sharing/:slug/copy", userId, slug)
         /\ budgets' = << >>
         /\ response' = sendError("No token provided", 401)
         /\ UNCHANGED db
    ELSE CopyShared(userId, slug, newId)

\* ------------------------------------------------------------------------
\* Requests in flight.  A handler gives up control at every await; a request
\* that has passed its checks and waits for its write is kept in `pending`
\* with what it has read, and n tells two requests of equal content apart.
\* The checks of a handler read rows that no modelled request writes between
\* them (the trip, the city), so they are one step.
\* ------------------------------------------------------------------------
MaxPending == 2

Free(n) == \A p \in pending : p.n # n

\* the request is kept, nothing is answered yet
Awaits(p) ==
    /\ pending' = pending \cup {p}
    /\ UNCHANGED <<db, request, response, budgets, now>>

\* the request p is answered
Completes(p) ==
    /\ p \in pending
    /\ pending' = pending \ {p}
    /\ request' = [route |-> p.route, userId |-> p.userId, tripId |-> p.tripId]
    /\ budgets' = << >>
    /\ UNCHANGED now

\* the unique index (tripId, dayNumber) of the itinerary days, which
\* where: { tripId_dayNumber } names
DayNumberTaken(tripId, dayNumber) ==
    \E it \in itineraries : it.tripId = tripId /\ it.dayNumber = dayNumber

\* faulty variant of CategoryTaken: no unique index on the allocations
CategoryNeverTaken(tripId, category) == FALSE

\* the unique index (tripId, category) of the allocations, which
\* where: { tripId_category } names
CategoryTaken(tripId, category) ==
    \E i \in 1..Len(tripBudgets) :
        tripBudgets[i].tripId = tripId /\ tripBudgets[i].category = category

\* a rejected promise reaches errorMiddleware through asyncHandler
errorMiddleware(message) == sendError(message, 500)

\* POST /trips/:tripId/itinerary/days up to the existence check: a request
\* that fails a check is answered as by AddDay, the others go on to the create
AddDayPasses(userId, tripId, body) ==
    /\ body.dayNumber > 0
    /\ verifyTripOwnership(tripId, userId) # NoTrip
    /\ body.cityId \in CityIds
    /\ ~\E it \in itineraries :
            it.tripId = tripId /\ it.dayNumber = body.dayNumber

AddDayCheck(n, userId, tripId, body) ==
    /\ Free(n)
    /\ IF AddDayPasses(userId, tripId, body)
       THEN Awaits([n |-> n, route |-> "POST /itinerary/days",
                    userId |-> userId, tripId |-> tripId, body |-> body])
       ELSE AddDay(userId, tripId, body)

\* await prisma.itinerary.create(...), and the answer
AddDayCreate(p) ==
    /\ p.route = "POST /itinerary/days"
    /\ Completes(p)
    /\ IF DayNumberTaken(p.tripId, p.body.dayNumber)
       THEN /\ response' = errorMiddleware("Unique constraint failed")
            /\ UNCHANGED db
       ELSE /\ itineraries' = itineraries \cup
                {[id |-> nextId + 1, tripId |-> p.tripId,
                  cityId |-> p.body.cityId, dayNumber |-> p.body.dayNumber,
                  orderIndex |-> DefaultOrderIndex]}
            /\ nextId' = nextId + 1
            /\ response' = sendSuccess("Day added", 201)
            /\ UNCHANGED <<trips, itineraryActivities, tripBudgets, sharedTrips>>

\* POST /trips/:tripId/itinerary/days/:dayId/activities, step by step: the
\* validation and the reads up to findFirst({ orderBy: { orderIndex: "desc" } }),
\* whose result the request keeps
AddActivityPasses(userId, tripId, dayId, body) ==
    /\ ~(Has(body, "customCost") /\ body.customCost <= 0)
    /\ verifyTripOwnership(tripId, userId) # NoTrip
    /\ \E it \in itineraries : it.id = dayId
    /\ body.activityId \in ActivityIds

AddActivityRead(n, userId, tripId, dayId, body) ==
    /\ Free(n)
    /\ IF AddActivityPasses(userId, tripId, dayId, body)
       THEN Awaits([n |-> n,
                    route |-> "POST /itinerary/days/:dayId/activities",
                    userId |-> userId, tripId |-> tripId, dayId |-> dayId,
                    body |-> body, orderIndex |-> NextOrderIndex(dayId)])
       ELSE AddActivity(userId, tripId, dayId, body)

\* await prisma.itineraryActivity.create(...), and the answer
AddActivityCreate(p) ==
    /\ p.route = "POST /itinerary/days/:dayId/activities"
    /\ Completes(p)
    /\ itineraryActivities' = Append(itineraryActivities,
           [id          |-> nextId + 1,
            itineraryId |-> p.dayId,
            activityId  |-> p.body.activityId,
            customCost  |-> IF Has(p.body, "customCost")
                            THEN Num(p.body.customCost) ELSE NULL,
            orderIndex  |-> p.orderIndex])
    /\ nextId' = nextId + 1
    /\ response' = sendSuccess("Activity added", 201)
    /\ UNCHANGED <<trips, itineraries, tripBudgets, sharedTrips>>

\* POST /trips/:tripId/budget up to Promise.all: one upsert per allocation,
\* all started, none finished
SetBudgetStart(n, userId, tripId, allocations) ==
    /\ Free(n)
    /\ IF ValidSetBudget(allocations)
          /\ verifyTripOwnership(tripId, userId) # NoTrip
       THEN Awaits([n |-> n, route |-> "POST /budget",
                    userId |-> userId, tripId |-> tripId,
                    upserts |-> [i \in 1..Len(allocations) |->
                                    [alloc |-> allocations[i], pc |-> "find"]],
                    rejected |-> FALSE])
       ELSE SetBudget(userId, tripId, allocations)

Replaces(p, q) ==
    /\ pending' = (pending \ {p}) \cup {q}
    /\ UNCHANGED <<request, response, budgets, now>>

\* faulty variant of UpsertUpdate: the row is written whole, as it is created
UpsertUpdateWholeRow(rows, tripId, alloc) ==
    [i \in 1..Len(rows) |->
        IF rows[i].tripId = tripId /\ rows[i].category = alloc.category
        THEN [rows[i] EXCEPT !.allocatedAmount = alloc.amount,
                             !.spentAmount = 0]
        ELSE rows[i]]

\* update: { allocatedAmount: alloc.amount } of the row of the key
UpsertUpdate(rows, tripId, alloc) ==
    [i \in 1..Len(rows) |->
        IF rows[i].tripId = tripId /\ rows[i].category = alloc.category
        THEN [rows[i] EXCEPT !.allocatedAmount = alloc.amount]
        ELSE rows[i]]

\* create: { tripId, category, allocatedAmount: alloc.amount, spentAmount: 0 }
UpsertCreate(rows, tripId, alloc) ==
    Append(rows, [tripId          |-> tripId,
                  category        |-> alloc.category,
                  allocatedAmount |-> alloc.amount,
                  spentAmount     |-> 0])

\* an upsert looks its row up by where: { tripId_category }
UpsertFind(p, i) ==
    /\ p \in pending
    /\ p.route = "POST /budget"
    /\ i \in 1..Len(p.upserts)
    /\ p.upserts[i].pc = "find"
    /\ Replaces(p, [p EXCEPT !.upserts[i].pc =
                        IF CategoryTaken(p.tripId, p.upserts[i].alloc.category)
                        THEN "update" ELSE "create"])
    /\ UNCHANGED db

\* the upsert writes: the update of the row it found, or the create of the
\* row it did not find, which the unique index refuses if the row exists now
UpsertWrite(p, i) ==
    /\ p \in pending
    /\ p.route = "POST /budget"
    /\ i \in 1..Len(p.upserts)
    /\ p.upserts[i].pc \in {"update", "create"}
    /\ UNCHANGED <<trips, itineraries, itineraryActivities, sharedTrips, nextId>>
    /\ IF /\ p.upserts[i].pc = "create"
          /\ CategoryTaken(p.tripId, p.upserts[i].alloc.category)
       THEN /\ Replaces(p, [p EXCEPT !.upserts[i].pc = "done",
                                     !.rejected = TRUE])
            /\ UNCHANGED tripBudgets
       ELSE /\ Replaces(p, [p EXCEPT !.upserts[i].pc = "done"])
            /\ tripBudgets' =
                IF p.upserts[i].pc = "update"
                THEN UpsertUpdate(tripBudgets, p.tripId, p.upserts[i].alloc)
                ELSE UpsertCreate(tripBudgets, p.tripId, p.upserts[i].alloc)

\* Promise.all has settled and the request is answered; the upserts that
\* run on after a rejection are taken to have finished before the answer
SetBudgetRespond(p) ==
    /\ p.route = "POST /budget"
    /\ \A i \in 1..Len(p.upserts) : p.upserts[i].pc = "done"
    /\ Completes(p)
    /\ response' = IF p.rejected
                   THEN errorMiddleware("Unique constraint failed")
                   ELSE sendSuccess("Budget updated", 200)
    /\ UNCHANGED db

\* POST /trips/:id/duplicate up to the create: the trip is read with its
\* days, their activities and its allocations
DuplicateRead(n, userId, id) ==
    /\ Free(n)
    /\ IF verifyTripOwnership(id, userId) = NoTrip
       THEN /\ Handles("POST /trips/:id/duplicate", userId, id)
            /\ budgets' = << >>
            /\ response' = sendError("Trip not found", 404)
            /\ UNCHANGED db
       ELSE Awaits([n |-> n, route |-> "POST /trips/:id/duplicate",
                    userId |-> userId, tripId |-> id,
                    name |-> trips[id].name \o " (Copy)",
                    original |-> Include(id, trips[id])])

\* POST /sharing/:slug/copy up to the create
CopySharedRead(n, userId, slug) ==
    /\ Free(n)
    /\ IF \/ SharesOf(slug) = {}
          \/ \E sh \in SharesOf(slug) : sh.permission = "VIEW_ONLY"
       THEN /\ Handles("POST /sharing/:slug/copy", userId, slug)
            /\ budgets' = << >>
            /\ response' = IF SharesOf(slug) = {}
                           THEN sendError("Shared trip not found", 404)
                           ELSE sendError("Copy not allowed for this share", 403)
            /\ UNCHANGED db
       ELSE LET share == CHOOSE sh \in SharesOf(slug) : TRUE
            IN  Awaits([n |-> n, route |-> "POST /sharing/:slug/copy",
                        userId |-> userId, tripId |-> slug,
                        name |-> trips[share.tripId].name \o " (Copied)",
                        original |-> Include(share.tripId,
                                             trips[share.tripId])])

\* await prisma.trip.create(...) with its nested creates, and the answer: the
\* rows are written in one transaction, or the database refuses the
\* transaction and none is written
CopyCreate(p, newId) ==
    /\ p.route \in {"POST /trips/:id/duplicate", "POST /sharing/:slug/copy"}
    /\ newId \notin DOMAIN trips
    /\ Completes(p)
    /\ \/ /\ TripCreateNested(p.userId, newId, p.name, p.original)
          /\ response' = sendSuccess(IF p.route = "POST /trips/:id/duplicate"
                                     THEN "Trip duplicated"
                                     ELSE "Trip copied successfully", 201)
                             @@ [id |-> newId]
       \/ /\ response' = errorMiddleware("Transaction failed")
          /\ UNCHANGED db

\* ------------------------------------------------------------------------
\* Specifications.  User u1 creates the trips, u2 is another authenticated
\* user; a request may name a trip id that is not created yet.
\* ------------------------------------------------------------------------
MaxAllocations == 2

TripBody == [name |-> "trip", startDate |-> "2025-07-01", endDate |-> "2025-07-15"]

Owner == "u1"

CategoryIndex(c) == CHOOSE i \in 1..Len(Category) : Category[i] = c

\* request bodies of POST /budget: up to n allocations of different
\* categories, and one body the schema rejects
AllocationLists(cats, amounts, n) ==
    UNION {{s \in [1..k -> [category : cats, amount : amounts]] :
               \A i \in 1..(k - 1) :
                   CategoryIndex(s[i].category) < CategoryIndex(s[i + 1].category)}
           : k \in 0..n}

RejectedAllocations == <<[category |-> "FOOD", amount |-> 0]>>

SetAmounts == {3, 17, 23}

\* the budget requests on the trips tripIds, with allocations of the
\* categories cats and the PATCH bodies patchBodies
BudgetRequests(tripIds, cats, amounts, patchBodies) ==
    \/ \E id \in tripIds : CreateTrip(Owner, id, TripBody)
    \/ \E t \in tripIds :
       \E allocations \in AllocationLists(cats, amounts, MaxAllocations)
                              \cup {RejectedAllocations} :
           SetBudget(Owner, t, allocations)
    \/ \E u \in Users \ {Owner}, t \in tripIds :
       \E allocations \in AllocationLists(cats, amounts, 1) :
           SetBudget(u, t, allocations)
    \/ \E u \in Users, t \in tripIds, c \in cats, body \in patchBodies :
           PatchBudget(u, t, c, body)
    \/ \E u \in Users, t \in tripIds : GetBudget(u, t)

\* Spec: one trip and three categories: allocations set, zeroed and spent
\* against
Next ==
    BudgetRequests({"t1"}, {"TRANSPORT", "ACCOMMODATION", "FOOD"}, SetAmounts,
                   {[allocatedAmount |-> 0], [spentAmount |-> 17]})

Spec == Init /\ [][Next]_vars

\* SpecRounding: one trip and four categories: allocations set and zeroed,
\* nothing spent
NextRounding ==
    BudgetRequests({"t1"}, {"TRANSPORT", "ACCOMMODATION", "FOOD", "ACTIVITIES"},
                   SetAmounts, {[allocatedAmount |-> 0]})

SpecRounding == Init /\ [][NextRounding]_vars

\* SpecCosts: two trips with itinerary days and scheduled activities, whose
\* custom costs are set, zeroed and cleared, and one FOOD allocation
MaxRows == 3

AddActivityBodies ==
    {[activityId |-> "eiffel"],
     [activityId |-> "sensoji", customCost |-> 7],
     [activityId |-> "eiffel", customCost |-> 0]}

UpdateActivityBodies ==
    {[customCost |-> Num(0)], [customCost |-> NULL], [customNotes |-> "early"]}

NextCosts ==
    \/ \E id \in {"t1", "t2"} : CreateTrip(Owner, id, TripBody)
    \/ \E t \in {"t1", "t2"}, n \in {0, 1} :
           /\ nextId < MaxRows
           /\ AddDay(Owner, t, [cityId |-> "paris", dayNumber |-> n])
    \/ \E t \in {"t1", "t2"}, dayId \in 1..MaxRows, body \in AddActivityBodies :
           /\ nextId < MaxRows
           /\ AddActivity(Owner, t, dayId, body)
    \/ \E t \in {"t1", "t2"}, id \in 1..MaxRows, body \in UpdateActivityBodies :
           UpdateActivity(Owner, t, id, body)
    \/ \E t \in {"t1", "t2"} :
           SetBudget(Owner, t, <<[category |-> "FOOD", amount |-> 3]>>)
    \/ \E t \in {"t1", "t2"} :
           PatchBudget(Owner, t, "FOOD", [spentAmount |-> 17])
    \/ \E u \in Users, t \in {"t1", "t2"} : GetBudget(u, t)

SpecCosts == Init /\ [][NextCosts]_vars

\* SpecDuplicate: a stored trip of u1, in any status, gets days, activities,
\* allocations and share links, and is duplicated by its owner and copied
\* through its share links by either user; the copies are duplicated too.
\* No route writes Trip.status but the two that copy, so the trip whose
\* status is not the default is a row stored before the first request.
StoredStatus == {"DRAFT", "COMPLETED", "CANCELLED"}

InitStored ==
    /\ \E status \in StoredStatus :
           trips = ("t1" :> [userId        |-> Owner,
                             name          |-> "trip",
                             description   |-> <<"by rail">>,
                             startDate     |-> "2025-07-01",
                             endDate       |-> "2025-07-15",
                             totalBudget   |-> Num(40),
                             coverPhotoUrl |-> NULL,
                             status        |-> status])
    /\ itineraries = {}
    /\ itineraryActivities = << >>
    /\ tripBudgets = << >>
    /\ sharedTrips = {}
    /\ nextId = 0
    /\ pending = {}
    /\ request = NoRequest
    /\ response = NoResponse
    /\ budgets = << >>
    /\ now = 0

TripIds == {"t1", "t2", "t3"}

ReorderBodies ==
    {[days |-> <<[id |-> 1, orderIndex |-> 2]>>],
     [activities |-> <<[id |-> 2, orderIndex |-> 5]>>]}

\* the id the database gives the next copy: the copies are named in the
\* order they are created in
NewIds == IF "t2" \notin DOMAIN trips THEN {"t2"} ELSE {"t3"}

\* the stored trip is the only one: it is built before it is copied
Uncopied == DOMAIN trips = {"t1"}

NextDuplicate ==
    \/ \E n \in {1, 2} :
           /\ Uncopied /\ nextId < MaxRows
           /\ AddDay(Owner, "t1", [cityId |-> IF n = 1 THEN "paris" ELSE "rome",
                                   dayNumber |-> n])
    \/ \E dayId \in 1..MaxRows, activityId \in ActivityIds :
           /\ Uncopied /\ nextId < MaxRows
           /\ AddActivity(Owner, "t1", dayId, [activityId |-> activityId])
    \/ \E body \in ReorderBodies :
           Uncopied /\ Reorder(Owner, "t1", body)
    \/ \E allocations \in AllocationLists({"TRANSPORT", "FOOD"}, {3}, 1) :
           Uncopied /\ SetBudget(Owner, "t1", allocations)
    \/ Uncopied /\ PatchBudget(Owner, "t1", "FOOD", [spentAmount |-> 17])
    \/ \E body \in {[permission |-> "CAN_COPY"], [sharedWithEmail |-> "u2"]} :
           Uncopied /\ CreateShare(Owner, "t1", body, "s1")
    \/ \E u \in Users, id \in TripIds, newId \in NewIds : Duplicate(u, id, newId)
    \/ \E u \in Users, newId \in NewIds : CopyShared(u, "s1", newId)

SpecDuplicate == InitStored /\ [][NextDuplicate]_vars

\* SpecIndependent: u1 creates a trip with a day, an activity and an
\* allocation, and shares it; it is duplicated or copied by u2; then the
\* owner of each trip updates and deletes the trip and its rows.  Every
\* request names rows of the trip of its path.
ActivitiesOf(tripId) ==
    {itineraryActivities[i] :
        i \in {j \in 1..Len(itineraryActivities) :
                  \E it \in itineraries :
                      /\ it.id = itineraryActivities[j].itineraryId
                      /\ it.tripId = tripId}}

MaxSourceRows == 2

NextIndependent ==
    \/ nextId = 0 /\ CreateTrip(Owner, "t1", TripBody)
    \/ /\ Uncopied /\ nextId < MaxSourceRows
       /\ AddDay(Owner, "t1", [cityId |-> "paris", dayNumber |-> 1])
    \/ \E it \in itineraries :
           /\ Uncopied /\ nextId < MaxSourceRows
           /\ AddActivity(Owner, "t1", it.id, [activityId |-> "eiffel"])
    \/ /\ Uncopied
       /\ SetBudget(Owner, "t1", <<[category |-> "FOOD", amount |-> 3]>>)
    \/ Uncopied /\ CreateShare(Owner, "t1", [permission |-> "CAN_COPY"], "s1")
    \/ nextId <= MaxSourceRows /\ Duplicate(Owner, "t1", "t2")
    \/ nextId <= MaxSourceRows /\ CopyShared("u2", "s1", "t2")
    \/ \E t \in DOMAIN trips :
           \/ PatchBudget(trips[t].userId, t, "FOOD", [spentAmount |-> 17])
           \/ UpdateTrip(trips[t].userId, t, [description |-> "changed"])
           \/ DeleteTrip(trips[t].userId, t)
           \/ \E it \in {d \in itineraries : d.tripId = t} :
                  \/ UpdateDay(trips[t].userId, t, it.id, [cityId |-> "rome"])
                  \/ DeleteDay(trips[t].userId, t, it.id)
           \/ \E ia \in ActivitiesOf(t) :
                  \/ UpdateActivity(trips[t].userId, t, ia.id,
                                    [customCost |-> Num(7)])
                  \/ DeleteActivity(trips[t].userId, t, ia.id)

SpecIndependent == Init /\ [][NextIndependent]_vars

\* Requests that overlap: at most MaxPending requests wait for their writes
\* while others are started, take a step or are answered, a new request
\* taking the least free number.
Numbers == 1..MaxPending

Least(n) == n \in Numbers /\ Free(n) /\ \A m \in 1..(n - 1) : ~Free(m)

FoodTwice ==
    <<[category |-> "FOOD", amount |-> 3], [category |-> "FOOD", amount |-> 17]>>

\* Set-allocations requests that name FOOD twice, patch-category requests
\* and duplications of trip t1 as t2
NextConcurrent ==
    \/ nextId = 0 /\ CreateTrip(Owner, "t1", TripBody)
    \/ \E n \in Numbers : Least(n) /\ SetBudgetStart(n, Owner, "t1", FoodTwice)
    \/ \E p \in pending, i \in 1..MaxAllocations : UpsertFind(p, i)
    \/ \E p \in pending, i \in 1..MaxAllocations : UpsertWrite(p, i)
    \/ \E p \in pending : SetBudgetRespond(p)
    \/ PatchBudget(Owner, "t1", "FOOD", [spentAmount |-> 17])
    \/ \E n \in Numbers : Least(n) /\ DuplicateRead(n, Owner, "t1")
    \/ \E p \in pending : CopyCreate(p, "t2")

SpecConcurrent == Init /\ [][NextConcurrent]_vars

\* Duplications and copies of trip t1 that overlap with each other and with
\* requests that change the allocations of t1.  u1 builds the trip and shares
\* it before the first of them.
Unrequested == Uncopied /\ pending = {} /\ tripBudgets = << >>

NextCopy ==
    \/ nextId = 0 /\ CreateTrip(Owner, "t1", TripBody)
    \/ Unrequested /\ AddDay(Owner, "t1", [cityId |-> "paris", dayNumber |-> 1])
    \/ \E it \in itineraries :
           /\ Unrequested
           /\ itineraryActivities = << >>
           /\ AddActivity(Owner, "t1", it.id, [activityId |-> "eiffel"])
    \/ Unrequested /\ CreateShare(Owner, "t1", [permission |-> "CAN_COPY"], "s1")
    \/ \E amount \in {3, 17} :
           SetBudget(Owner, "t1", <<[category |-> "FOOD", amount |-> amount]>>)
    \/ \E n \in Numbers : Least(n) /\ DuplicateRead(n, Owner, "t1")
    \/ \E n \in Numbers : Least(n) /\ CopySharedRead(n, "u2", "s1")
    \/ \E p \in pending, newId \in {"t2", "t3"} : CopyCreate(p, newId)

SpecCopy == Init /\ [][NextCopy]_vars

\* Add-day requests that overlap, two of them possibly for the same dayNumber
AddDayBodies == [cityId : CityIds \cup {"atlantis"}, dayNumber : 0..2]

NextAddDay ==
    \/ nextId = 0 /\ CreateTrip(Owner, "t1", TripBody)
    \/ \E n \in Numbers, userId \in Users, body \in AddDayBodies :
           Least(n) /\ AddDayCheck(n, userId, "t1", body)
    \/ \E p \in pending : AddDayCreate(p)

SpecAddDay == Init /\ [][NextAddDay]_vars

\* Set-allocations and patch-category requests on the allocations of trip t1
\* that overlap; the patch is one UPDATE of the columns its body names
PatchedSpent == {7, 9}

PatchedAllocated == {5}

PatchBodies ==
    [spentAmount : PatchedSpent] \cup [allocatedAmount : PatchedAllocated]
        \cup [allocatedAmount : PatchedAllocated, spentAmount : PatchedSpent]

NextWrites ==
    \/ nextId = 0 /\ CreateTrip(Owner, "t1", TripBody)
    \/ \E n \in Numbers, allocations \in AllocationLists({"FOOD"}, {3, 17}, 1) :
           Least(n) /\ SetBudgetStart(n, Owner, "t1", allocations)
    \/ \E p \in pending, i \in 1..MaxAllocations : UpsertFind(p, i)
    \/ \E p \in pending, i \in 1..MaxAllocations : UpsertWrite(p, i)
    \/ \E p \in pending : SetBudgetRespond(p)
    \/ \E body \in PatchBodies : PatchBudget(Owner, "t1", "FOOD", body)

SpecWrites == Init /\ [][NextWrites]_vars

\* Two owners.  u2 owns t2, builds it and shares it; u1 owns t1 and sends
\* requests on the path of either trip that name any day, activity or share
\* id.
TripOf(userId) == IF userId = "u1" THEN "t1" ELSE "t2"

NextOwnership ==
    \/ \E u \in Users : nextId = 0 /\ CreateTrip(u, TripOf(u), TripBody)
    \/ /\ nextId < MaxSourceRows
       /\ AddDay("u2", "t2", [cityId |-> "paris", dayNumber |-> 1])
    \/ \E it \in itineraries :
           /\ nextId < MaxSourceRows
           /\ AddActivity("u2", "t2", it.id, [activityId |-> "eiffel"])
    \/ SetBudget("u2", "t2", <<[category |-> "FOOD", amount |-> 3]>>)
    \/ CreateShare("u2", "t2", [permission |-> "CAN_COPY"], "s2")
    \/ \E t \in {"t1", "t2"} :
           \/ PatchBudget("u1", t, "FOOD", [spentAmount |-> 17])
           \/ \E id \in 1..MaxSourceRows :
                  \/ UpdateDay("u1", t, id, [cityId |-> "rome"])
                  \/ DeleteDay("u1", t, id)
                  \/ UpdateActivity("u1", t, id, [customCost |-> Num(7)])
                  \/ DeleteActivity("u1", t, id)
                  \/ Reorder("u1", t, [days |-> <<[id |-> id, orderIndex |-> 2]>>])
                  \/ Reorder("u1", t, [activities |->
                                          <<[id |-> id, orderIndex |-> 5]>>])
           \/ RevokeShare("u1", t, "s2")

SpecOwnership == Init /\ [][NextOwnership]_vars

\* The amounts that requests can store: set-allocations requests with
\* positive and rejected amounts, patch-category requests, whose body is any
\* JSON number, and duplications
AmountBodies ==
    [allocatedAmount : {-5, 0}] \cup [spentAmount : {-5, 17}]

NextAmounts ==
    \/ nextId = 0 /\ CreateTrip(Owner, "t1", TripBody)
    \/ \E allocations \in AllocationLists({"TRANSPORT", "FOOD"}, {3},
                                           MaxAllocations)
                              \cup {RejectedAllocations} :
           SetBudget(Owner, "t1", allocations)
    \/ \E c \in {"TRANSPORT", "FOOD"}, body \in AmountBodies :
           PatchBudget(Owner, "t1", c, body)
    \/ \E newId \in NewIds : Duplicate(Owner, "t1", newId)

SpecAmounts == Init /\ [][NextAmounts]_vars

\* Add-activity requests on the days of trip t1 that overlap; the days are
\* added first and no request removes a day
NextAddActivity ==
    \/ nextId = 0 /\ CreateTrip(Owner, "t1", TripBody)
    \/ \E dayNumber \in {1, 2} :
           /\ nextId < 2 /\ pending = {} /\ itineraryActivities = << >>
           /\ AddDay(Owner, "t1", [cityId |-> "paris", dayNumber |-> dayNumber])
    \/ \E n \in Numbers, dayId \in 1..3, body \in AddActivityBodies :
           /\ Least(n)
           /\ Len(itineraryActivities) + Cardinality(pending) < MaxRows
           /\ AddActivityRead(n, Owner, "t1", dayId, body)
    \/ \E p \in pending : AddActivityCreate(p)

SpecAddActivity == Init /\ [][NextAddActivity]_vars

\* The allocations of one trip: set-allocations requests over three
\* categories, and patch-category requests that record spending or clear an
\* allocated amount
FrameLists ==
    AllocationLists({"TRANSPORT", "ACCOMMODATION", "FOOD"}, {3, 23},
                    MaxAllocations)

FrameBodies == {[spentAmount |-> 17], [allocatedAmount |-> 0]}

NextAllocations ==
    \/ nextId = 0 /\ CreateTrip(Owner, "t1", TripBody)
    \/ \E allocations \in FrameLists : SetBudget(Owner, "t1", allocations)
    \/ \E c \in {"TRANSPORT", "ACCOMMODATION", "FOOD"}, body \in FrameBodies :
           PatchBudget(Owner, "t1", c, body)

SpecAllocations == Init /\ [][NextAllocations]_vars

\* Sharing.  u1 shares trip t1 under the slug s1, to everybody or to u2, with
\* or without an expiry of a day, and revokes the share; u1, u2 and requesters
\* without a token view the share and copy the trip through it while the days
\* pass.
MaxNow == 2

ShareBodies ==
    [permission : SharePermission]
        \cup {[sharedWithEmail |-> "u2"],
              [permission |-> "CAN_COPY", sharedWithEmail |-> "u2"],
              [permission |-> "CAN_COPY", expiresInDays |-> 1]}

Requesters == Users \cup {Anonymous}

NextSharing ==
    \/ nextId = 0 /\ CreateTrip(Owner, "t1", TripBody)
    \/ /\ nextId = 0
       /\ sharedTrips = {}
       /\ AddDay(Owner, "t1", [cityId |-> "paris", dayNumber |-> 1])
    \/ \E body \in ShareBodies : CreateShare(Owner, "t1", body, "s1")
    \/ now < MaxNow /\ Tick
    \/ \E u \in Requesters : ViewShared(u, "s1")
    \/ \E u \in Requesters, newId \in NewIds : CopySharedRequest(u, "s1", newId)
    \/ \E u \in Users : RevokeShare(u, "t1", "s1")

SpecSharing == Init /\ [][NextSharing]_vars

\* ------------------------------------------------------------------------
\* Properties of the budget summary
\* ------------------------------------------------------------------------
\* the last response is a budget summary (of the trip request.tripId)
Summary == "data" \in DOMAIN response

\* the stored allocations of a trip
StoredAllocations(tripId) ==
    {tripBudgets[i] : i \in {j \in 1..Len(tripBudgets) :
                                tripBudgets[j].tripId = tripId}}

RECURSIVE SumOfAllocated(_)
SumOfAllocated(S) ==
    IF S = {} THEN 0
    ELSE LET b == CHOOSE x \in S : TRUE
         IN  b.allocatedAmount + SumOfAllocated(S \ {b})

RECURSIVE SumOfSpent(_)
SumOfSpent(S) ==
    IF S = {} THEN 0
    ELSE LET b == CHOOSE x \in S : TRUE
         IN  b.spentAmount + SumOfSpent(S \ {b})

\* C1: totalAllocated is the sum of allocatedAmount and totalSpent the sum of
\* spentAmount over all stored allocations of the trip.
C1_TotalsAreSums ==
    Summary =>
        /\ response.data.totalAllocated
               = SumOfAllocated(StoredAllocations(request.tripId))
        /\ response.data.totalSpent
               = SumOfSpent(StoredAllocations(request.tripId))

C1_Witness ==
    /\ Summary
    /\ Len(response.data.breakdown) >= 2
    /\ response.data.totalSpent > 0
    /\ response.data.totalAllocated > response.data.totalSpent

\* C2: remaining is totalAllocated - totalSpent, and it is negative (not
\* clamped to 0) when totalSpent exceeds totalAllocated.
C2_RemainingIsDifference ==
    Summary =>
        /\ response.data.remaining
               = response.data.totalAllocated - response.data.totalSpent
        /\ response.data.totalSpent > response.data.totalAllocated
               => response.data.remaining < 0

C2_Witness ==
    /\ Summary
    /\ response.data.totalSpent > response.data.totalAllocated
    /\ response.data.remaining < 0

\* n / d rounded to the nearest integer, halves up (d > 0)
HalfUp(n, d) == (2 * n + d) \div (2 * d)

\* C3: each percentage is allocatedAmount / totalAllocated * 100 rounded to
\* the nearest integer with halves rounded up when totalAllocated > 0, and 0
\* otherwise.
C3_PercentageIsHalfUp ==
    Summary =>
        \A i \in 1..Len(budgets) :
            response.data.breakdown[i].percentage
                = IF response.data.totalAllocated > 0
                  THEN HalfUp(100 * budgets[i].allocatedAmount,
                              response.data.totalAllocated)
                  ELSE 0

PercentageSum == SumSeq([i \in 1..Len(response.data.breakdown) |->
                            response.data.breakdown[i].percentage])

\* C4 as stated: with totalAllocated > 0 the percentages of two or more
\* categories sum to a value in [99, 101], and a single category with
\* allocatedAmount > 0 has 100.
C4_SumWithin99And101 ==
    (Summary /\ response.data.totalAllocated > 0) =>
        /\ Len(budgets) >= 2 => PercentageSum \in 99..101
        /\ Len(budgets) = 1 => PercentageSum = 100

\* C4 amended: with totalAllocated > 0 the percentages of n categories sum
\* to a value that differs from 100 by at most n \div 2 (so [99, 101] for two
\* or three categories), and a single category has 100.
C4_SumWithinHalfTheCount ==
    (Summary /\ response.data.totalAllocated > 0) =>
        /\ Abs(PercentageSum - 100) <= Len(budgets) \div 2
        /\ Len(budgets) = 1 => PercentageSum = 100

C4_Witness ==
    /\ Summary
    /\ response.data.totalAllocated > 0
    /\ Len(budgets) = 4
    /\ PercentageSum = 102

\* C5: isOverBudget holds exactly when spentAmount > allocatedAmount; an
\* allocation spent exactly is not over budget.
C5_OverBudgetIffStrictlyMore ==
    Summary =>
        \A i \in 1..Len(budgets) :
            response.data.breakdown[i].isOverBudget
                <=> budgets[i].spentAmount > budgets[i].allocatedAmount

C5_Witness ==
    /\ Summary
    /\ \E i \in 1..Len(budgets) :
           /\ budgets[i].spentAmount = budgets[i].allocatedAmount
           /\ budgets[i].spentAmount > 0
           /\ ~response.data.breakdown[i].isOverBudget
    /\ \E i \in 1..Len(budgets) : response.data.breakdown[i].isOverBudget

\* the positions of the breakdown whose allocation is overspent, and the
\* k-th of them
OverPositions ==
    {i \in 1..Len(budgets) : budgets[i].spentAmount > budgets[i].allocatedAmount}

KthOver(k) ==
    CHOOSE i \in OverPositions :
        Cardinality({j \in OverPositions : j <= i}) = k

\* C6: overBudgetWarnings has exactly one warning per overspent allocation
\* and none for the others, in breakdown order, each naming the category and
\* the amount spentAmount - allocatedAmount with two decimals.
C6_OneWarningPerOverspent ==
    Summary =>
        /\ Len(response.data.overBudgetWarnings) = Cardinality(OverPositions)
        /\ \A k \in 1..Len(response.data.overBudgetWarnings) :
               response.data.overBudgetWarnings[k]
                   = budgets[KthOver(k)].category
                         \o " is over budget by $"
                         \o ToString(budgets[KthOver(k)].spentAmount
                                       - budgets[KthOver(k)].allocatedAmount)
                         \o ".00"

C6_Witness ==
    /\ Summary
    /\ Len(budgets) = 3
    /\ OverPositions = {2, 3}
    /\ response.data.overBudgetWarnings[1]
           = budgets[2].category \o " is over budget by $14.00"

\* C7: the breakdown has one entry per stored allocation of the trip, in the
\* order of the allocation list read, each with that allocation's category,
\* allocated and spent amounts; a category without a row has no entry and
\* the request still succeeds.
C7_BreakdownFollowsAllocations ==
    Summary =>
        /\ response.status = 200
        /\ Len(response.data.breakdown) = Len(budgets)
        /\ Len(budgets) = Cardinality(StoredAllocations(request.tripId))
        /\ {budgets[i] : i \in 1..Len(budgets)}
               = StoredAllocations(request.tripId)
        /\ \A i \in 1..Len(budgets) :
               /\ response.data.breakdown[i].category = budgets[i].category
               /\ response.data.breakdown[i].allocated
                      = budgets[i].allocatedAmount
               /\ response.data.breakdown[i].spent = budgets[i].spentAmount
        /\ \A c \in Categories :
               (~\E b \in StoredAllocations(request.tripId) : b.category = c)
                   => ~\E i \in 1..Len(response.data.breakdown) :
                           response.data.breakdown[i].category = c

C7_Witness ==
    /\ Summary
    /\ Len(budgets) = 2
    /\ CategoryIndex(budgets[1].category) > CategoryIndex(budgets[2].category)
    /\ budgets[1].allocatedAmount # budgets[2].allocatedAmount
    /\ response.data.breakdown[1].category = budgets[1].category

\* the scheduled activities of the days of a trip
ScheduledActivities(tripId) ==
    {itineraryActivities[i] :
        i \in {j \in 1..Len(itineraryActivities) :
                  \E it \in itineraries :
                      /\ it.id = itineraryActivities[j].itineraryId
                      /\ it.tripId = tripId}}

RECURSIVE SumOfCosts(_)
SumOfCosts(S) ==
    IF S = {} THEN 0
    ELSE LET ia == CHOOSE x \in S : TRUE
         IN  (IF ia.customCost # NULL
              THEN ia.customCost[1]
              ELSE estimatedCost[ia.activityId]) + SumOfCosts(S \ {ia})

\* C8: estimatedActivityCosts is the sum, over the scheduled activities of
\* the trip's itinerary days, of the customCost when it is non-null (a
\* customCost of 0 included) and of the catalogue activity's estimatedCost
\* otherwise.
C8_ActivityCostsAreSummed ==
    Summary =>
        response.data.estimatedActivityCosts
            = SumOfCosts(ScheduledActivities(request.tripId))

C8_Witness ==
    /\ Summary
    /\ \E ia \in ScheduledActivities(request.tripId) :
           ia.customCost = Num(0) /\ ia.activityId = "eiffel"
    /\ \E ia \in ScheduledActivities(request.tripId) :
           ia.customCost = NULL /\ ia.activityId = "eiffel"
    /\ response.data.estimatedActivityCosts = 26

\* C9: a trip without allocations has totalAllocated, totalSpent and
\* remaining 0, an empty breakdown and no warnings, whatever its scheduled
\* activities cost.
C9_NoAllocationsAllZero ==
    (Summary /\ StoredAllocations(request.tripId) = {}) =>
        /\ response.data.totalAllocated = 0
        /\ response.data.totalSpent = 0
        /\ response.data.remaining = 0
        /\ response.data.breakdown = << >>
        /\ response.data.overBudgetWarnings = << >>

C9_Witness ==
    /\ Summary
    /\ StoredAllocations(request.tripId) = {}
    /\ response.data.estimatedActivityCosts > 0
    /\ response.data.remaining = 0
    /\ tripBudgets # << >>

\* C10: a budget summary request changes no trip, itinerary day, scheduled
\* activity or allocation, and a summary request that directly follows the
\* same summary request gets the same response.
C10_SummaryReadsOnly ==
    [][request'.route = "GET /budget" =>
          /\ db' = db
          /\ request' = request => response' = response]_vars

C10_Witness ==
    /\ Summary
    /\ response.data.breakdown # << >>
    /\ response.data.estimatedActivityCosts > 0
    /\ Len(itineraryActivities) >= 2

\* ------------------------------------------------------------------------
\* Properties of trip duplication
\* ------------------------------------------------------------------------
DuplicateRoutes == {"POST /trips/:id/duplicate", "POST /sharing/:slug/copy"}

\* this step is a duplication that succeeds
Duplicates == request'.route \in DuplicateRoutes /\ response'.status = 201

\* the trip it creates
NewTripId == CHOOSE id \in DOMAIN trips' : id \notin DOMAIN trips

\* the trip it copies: the trip of the path, or of the share link of the path
SourceId ==
    IF request'.route = "POST /trips/:id/duplicate"
    THEN request'.tripId
    ELSE (CHOOSE sh \in sharedTrips : sh.publicSlug = request'.tripId).tripId

\* the days of a trip among the rows `days`, and the activities of a day
\* among the rows `acts`
DaysIn(days, tripId) == {it \in days : it.tripId = tripId}

ActivitiesIn(acts, dayId) ==
    {acts[i] : i \in {j \in 1..Len(acts) : acts[j].itineraryId = dayId}}

ActivitiesOfTrip(days, acts, tripId) ==
    UNION {ActivitiesIn(acts, it.id) : it \in DaysIn(days, tripId)}

\* the day `copy` has as many activities of each orderIndex as `day`
SameOrderIndexes(day, copy) ==
    \A v \in {ia.orderIndex : ia \in ActivitiesIn(itineraryActivities, day.id)}
              \cup {ia.orderIndex :
                       ia \in ActivitiesIn(itineraryActivities', copy.id)} :
        Cardinality({ia \in ActivitiesIn(itineraryActivities, day.id) :
                        ia.orderIndex = v})
            = Cardinality({ia \in ActivitiesIn(itineraryActivities', copy.id) :
                              ia.orderIndex = v})

\* C11: a duplication yields a copy with as many days and scheduled
\* activities as the source; each source day has one copy day with its
\* dayNumber and orderIndex and as many activities of each orderIndex; and no
\* identity of the copy is an identity of the source.
C11_CopyHasSameStructure ==
    [][Duplicates =>
        LET days     == DaysIn(itineraries, SourceId)
            copies   == DaysIn(itineraries', NewTripId)
            acts     == ActivitiesOfTrip(itineraries, itineraryActivities,
                                         SourceId)
            copyActs == ActivitiesOfTrip(itineraries', itineraryActivities',
                                         NewTripId)
        IN  /\ Cardinality(copies) = Cardinality(days)
            /\ Cardinality(copyActs) = Cardinality(acts)
            /\ \A day \in days :
                   /\ Cardinality({c \in copies :
                                      c.dayNumber = day.dayNumber}) = 1
                   /\ \A c \in copies :
                          c.dayNumber = day.dayNumber =>
                              /\ c.orderIndex = day.orderIndex
                              /\ SameOrderIndexes(day, c)
            /\ NewTripId # SourceId
            /\ {c.id : c \in copies} \cap {day.id : day \in days} = {}
            /\ {ia.id : ia \in copyActs} \cap {ia.id : ia \in acts} = {}
            /\ Cardinality({c.id : c \in copies}) = Cardinality(copies)
            /\ Cardinality({ia.id : ia \in copyActs}) = Len(itineraryActivities')
                                                  - Len(itineraryActivities)
    ]_vars

\* a copy of a trip with two days, reordered, and an activity on the second
C11_Witness ==
    /\ request.route \in DuplicateRoutes
    /\ response.status = 201
    /\ \E id \in DOMAIN trips \ {"t1"} :
           /\ Cardinality(DaysIn(itineraries, id)) = 2
           /\ \E it \in DaysIn(itineraries, id) :
                  /\ it.dayNumber = 2
                  /\ it.orderIndex = 2
                  /\ ActivitiesIn(itineraryActivities, it.id) # {}

\* C12: a trip created by a duplication has status DRAFT right after its
\* creation, whatever the status of the source.
C12_CopyIsDraft ==
    [][Duplicates => trips'[NewTripId].status = "DRAFT"]_vars

\* a copy made through the share link of a trip that is COMPLETED
C12_Witness ==
    /\ request.route = "POST /sharing/:slug/copy"
    /\ response.status = 201
    /\ trips["t1"].status = "COMPLETED"
    /\ trips[response.id].status = "DRAFT"

\* the allocations of a trip among the rows `rows`
AllocationsIn(rows, tripId) ==
    {rows[i] : i \in {j \in 1..Len(rows) : rows[j].tripId = tripId}}

\* C13: the allocations of a duplicated trip have the categories of the
\* source's, each with the allocatedAmount of the source's allocation of
\* that category and spentAmount 0.
C13_CopiedAllocationsUnspent ==
    [][Duplicates =>
        LET source == AllocationsIn(tripBudgets, SourceId)
            copy   == AllocationsIn(tripBudgets', NewTripId)
        IN  /\ {b.category : b \in copy} = {b.category : b \in source}
            /\ Cardinality(copy) = Cardinality(source)
            /\ \A c \in copy :
                   /\ c.spentAmount = 0
                   /\ \E b \in source :
                          /\ b.category = c.category
                          /\ b.allocatedAmount = c.allocatedAmount
    ]_vars

\* a copy of a trip with two allocations, 17 spent on FOOD
C13_Witness ==
    /\ request.route \in DuplicateRoutes
    /\ response.status = 201
    /\ \E b \in AllocationsIn(tripBudgets, "t1") :
           b.category = "FOOD" /\ b.spentAmount = 17
    /\ \E c \in AllocationsIn(tripBudgets, response.id) :
           c.category = "FOOD" /\ c.allocatedAmount = 3 /\ c.spentAmount = 0
    /\ Cardinality(AllocationsIn(tripBudgets, response.id)) = 2

\* C14: a duplicated trip is owned by the user who asked for it, and has the
\* description, startDate, endDate, totalBudget and coverPhotoUrl of the
\* source.
C14_CopyOwnedByRequester ==
    [][Duplicates =>
        /\ trips'[NewTripId].userId = request'.userId
        /\ trips'[NewTripId].description = trips[SourceId].description
        /\ trips'[NewTripId].startDate = trips[SourceId].startDate
        /\ trips'[NewTripId].endDate = trips[SourceId].endDate
        /\ trips'[NewTripId].totalBudget = trips[SourceId].totalBudget
        /\ trips'[NewTripId].coverPhotoUrl = trips[SourceId].coverPhotoUrl
    ]_vars

\* u2 has copied the trip of u1 through its share link
C14_Witness ==
    /\ request = [route |-> "POST /sharing/:slug/copy", userId |-> "u2",
                  tripId |-> "s1"]
    /\ response.status = 201
    /\ trips["t1"].userId = "u1"
    /\ trips[response.id].userId = "u2"
    /\ trips[response.id].totalBudget = Num(40)

\* what a scheduled activity carries besides its id and its day
Carried(ia) ==
    [activityId |-> ia.activityId, customCost |-> ia.customCost,
     orderIndex |-> ia.orderIndex]

\* the day `copy` has as many activities carrying the same as `day` has
SameActivities(day, copy) ==
    \A ia \in ActivitiesIn(itineraryActivities, day.id)
                \cup ActivitiesIn(itineraryActivities', copy.id) :
        Cardinality({a \in ActivitiesIn(itineraryActivities, day.id) :
                        Carried(a) = Carried(ia)})
            = Cardinality({a \in ActivitiesIn(itineraryActivities', copy.id) :
                              Carried(a) = Carried(ia)})

\* the rows a step adds to itineraryActivities
AddedActivities ==
    {itineraryActivities'[i] :
        i \in (Len(itineraryActivities) + 1)..Len(itineraryActivities')}

\* C15: in a duplicated trip every copied day belongs to the new trip and
\* has the cityId of its source, and every copied activity belongs to the
\* copy of the day of its source, never to a day of the source, and has the
\* activityId of its source.
C15_ForeignKeysRemapped ==
    [][Duplicates =>
        LET days   == DaysIn(itineraries, SourceId)
            copies == itineraries' \ itineraries
        IN  /\ \A c \in copies : c.tripId = NewTripId
            /\ \A day \in days :
                   \E c \in copies :
                       /\ c.dayNumber = day.dayNumber
                       /\ c.cityId = day.cityId
                       /\ SameActivities(day, c)
            /\ \A ia \in AddedActivities :
                   /\ ia.itineraryId \in {c.id : c \in copies}
                   /\ ia.itineraryId \notin {it.id : it \in itineraries}
            /\ itineraries \subseteq itineraries'
            /\ SubSeq(itineraryActivities', 1, Len(itineraryActivities))
                   = itineraryActivities
    ]_vars

\* a copy of a trip with a day in Paris and a day in Rome, the second with
\* an activity
C15_Witness ==
    /\ request.route \in DuplicateRoutes
    /\ response.status = 201
    /\ \E c \in DaysIn(itineraries, response.id) :
           /\ c.cityId = "rome"
           /\ \E ia \in ActivitiesIn(itineraryActivities, c.id) :
                  ia.activityId = "sensoji"
    /\ \E c \in DaysIn(itineraries, response.id) : c.cityId = "paris"

\* the shape of a trip in the tables T, D, A, B: its row, its days with what
\* their activities carry, and its allocations, all without the ids
DayShape(A, it) ==
    [cityId     |-> it.cityId,
     dayNumber  |-> it.dayNumber,
     orderIndex |-> it.orderIndex,
     activities |-> LET acts == SelectSeq(A, LAMBDA ia : ia.itineraryId = it.id)
                    IN  [i \in 1..Len(acts) |-> Carried(acts[i])]]

Shape(T, D, A, B, tripId) ==
    [trip    |-> T[tripId],
     days    |-> {DayShape(A, it) : it \in DaysIn(D, tripId)},
     count   |-> Cardinality(DaysIn(D, tripId)),
     budgets |-> {[category        |-> b.category,
                   allocatedAmount |-> b.allocatedAmount,
                   spentAmount     |-> b.spentAmount] : b \in AllocationsIn(B, tripId)}]

\* the ids of the days and activities of a trip
IdsOf(D, A, tripId) ==
    {it.id : it \in DaysIn(D, tripId)}
        \cup {ia.id : ia \in ActivitiesOfTrip(D, A, tripId)}

\* C17: a duplication repeated right after it succeeded succeeds again, and
\* makes a second copy that shares no identity with the first and has the
\* same days, scheduled activities and allocations.
C17_SecondCopyIsEquivalent ==
    [][(/\ request.route \in DuplicateRoutes
        /\ response.status = 201
        /\ request' = request
        /\ response' # response) =>
           /\ response'.status = 201
           /\ response'.id # response.id
           /\ response.id \in DOMAIN trips'
           /\ Shape(trips', itineraries', itineraryActivities', tripBudgets',
                    response'.id)
                  = Shape(trips', itineraries', itineraryActivities',
                          tripBudgets', response.id)
           /\ Shape(trips', itineraries', itineraryActivities', tripBudgets',
                    response.id)
                  = Shape(trips, itineraries, itineraryActivities, tripBudgets,
                          response.id)
           /\ IdsOf(itineraries', itineraryActivities', response'.id)
                  \cap IdsOf(itineraries', itineraryActivities', response.id) = {}
    ]_vars

\* three trips: the source with a day, an activity and an allocation, and
\* two copies of it made by the same request
C17_Witness ==
    /\ request = [route |-> "POST /trips/:id/duplicate", userId |-> "u1",
                  tripId |-> "t1"]
    /\ response.status = 201
    /\ DOMAIN trips = TripIds
    /\ trips["t2"].name = "trip (Copy)"
    /\ trips["t3"].name = "trip (Copy)"
    /\ \A id \in TripIds :
           /\ Cardinality(ActivitiesOfTrip(itineraries, itineraryActivities, id)) = 1
           /\ Cardinality(AllocationsIn(tripBudgets, id)) = 1

\* a trip with its days, scheduled activities and allocations in the tables
\* T, D, A, B
Aggregate(T, D, A, B, tripId) ==
    [trip        |-> T[tripId],
     days        |-> DaysIn(D, tripId),
     activities  |-> ActivitiesOfTrip(D, A, tripId),
     allocations |-> AllocationsIn(B, tripId)]

\* C16: a duplication leaves the source, its days, scheduled activities and
\* allocations unchanged, and an update or delete applied to a trip or to
\* its rows leaves every other trip and its rows unchanged, the copy's
\* source and the source's copies among them.
C16_OtherTripsUnchanged ==
    [][\A id \in DOMAIN trips :
           (id # request'.tripId \/ request'.route \in DuplicateRoutes) =>
               /\ id \in DOMAIN trips'
               /\ Aggregate(trips', itineraries', itineraryActivities',
                            tripBudgets', id)
                      = Aggregate(trips, itineraries, itineraryActivities,
                                  tripBudgets, id)
    ]_vars

\* the copy has lost its day and its activity, the source has both
C16_Witness ==
    /\ request.route = "DELETE /itinerary/days/:dayId"
    /\ request.tripId = "t2"
    /\ response.status = 200
    /\ DaysIn(itineraries, "t2") = {}
    /\ \E it \in DaysIn(itineraries, "t1") :
           ActivitiesIn(itineraryActivities, it.id) # {}
    /\ \E b \in AllocationsIn(tripBudgets, "t2") : b.spentAmount = 17
    /\ \E b \in AllocationsIn(tripBudgets, "t1") : b.spentAmount = 0

\* ------------------------------------------------------------------------
\* Properties of overlapping requests
\* ------------------------------------------------------------------------
\* the names of the trips made by the two duplicating routes
CopyNames == {TripBody.name \o " (Copy)", TripBody.name \o " (Copied)"}

\* C18: a trip made by duplication is never seen without its rows.  The
\* step that creates its trip row creates with it a day for every day read
\* from the source, an activity for every activity read and an allocation
\* for every allocation read; no later step adds or removes a row of it; and
\* a duplication that fails leaves the database as it was.
C18_CopyAppearsWhole ==
    [][/\ \A id \in DOMAIN trips' \ DOMAIN trips :
              trips'[id].name \in CopyNames =>
                  \E p \in pending \ pending' :
                      LET days == p.original.itineraries
                          read == p.original.budgets
                      IN  /\ {it.dayNumber : it \in DaysIn(itineraries', id)}
                                 = {days[k].dayNumber : k \in 1..Len(days)}
                          /\ Cardinality(DaysIn(itineraries', id)) = Len(days)
                          /\ Cardinality(ActivitiesOfTrip(itineraries',
                                              itineraryActivities', id))
                                 = Len(ActivitiesFrom(days, 1))
                          /\ {b.category : b \in AllocationsIn(tripBudgets', id)}
                                 = {read[j].category : j \in 1..Len(read)}
                          /\ Cardinality(AllocationsIn(tripBudgets', id))
                                 = Len(read)
       /\ \A id \in DOMAIN trips :
              trips[id].name \in CopyNames =>
                  /\ id \in DOMAIN trips'
                  /\ Aggregate(trips', itineraries', itineraryActivities',
                               tripBudgets', id)
                         = Aggregate(trips, itineraries, itineraryActivities,
                                     tripBudgets, id)
       /\ \A p \in pending \ pending' :
              (p.route \in DuplicateRoutes /\ response'.status # 201) =>
                  db' = db
    ]_vars

\* the copy t2 was created from what its request had read, a day with an
\* activity and FOOD 3, after a set-allocations request had changed the
\* source, whose FOOD is 17 now; another request is still waiting
C18_Witness ==
    /\ request.route \in DuplicateRoutes
    /\ response.status = 201
    /\ "t2" \in DOMAIN trips
    /\ ActivitiesOfTrip(itineraries, itineraryActivities, "t2") # {}
    /\ \E b \in AllocationsIn(tripBudgets, "t2") : b.allocatedAmount = 3
    /\ \E b \in AllocationsIn(tripBudgets, "t1") : b.allocatedAmount = 17
    /\ pending # {}

\* C19: in every reachable state there is at most one allocation per trip
\* and category, whatever the interleaving of the upserts of set-allocations
\* requests, of patch-category requests and of duplications.
C19_OneAllocationPerCategory ==
    \A i, j \in 1..Len(tripBudgets) :
        (/\ tripBudgets[i].tripId = tripBudgets[j].tripId
         /\ tripBudgets[i].category = tripBudgets[j].category) => i = j

\* the two upserts of a request that names FOOD twice both found no row; one
\* created it, the other was refused, and the trip has been duplicated
C19_Witness ==
    /\ request.route = "POST /budget"
    /\ response.status = 500
    /\ Cardinality({i \in 1..Len(tripBudgets) :
                        /\ tripBudgets[i].tripId = "t1"
                        /\ tripBudgets[i].category = "FOOD"}) = 1
    /\ AllocationsIn(tripBudgets, "t2") # {}

NoDuplicateDayNumbers ==
    \A a, b \in itineraries :
        (a.tripId = b.tripId /\ a.dayNumber = b.dayNumber) => a = b

\* C20: no trip has two days of the same dayNumber, and an add-day request
\* whose dayNumber exists in the trip when it is decided is answered 409 and
\* creates nothing, also when it passed the existence check before the day
\* was created.
C20_DuplicateDayRejectedWith409 ==
    /\ []NoDuplicateDayNumbers
    /\ [][\A p \in pending \ pending' :
              (/\ p.route = "POST /itinerary/days"
               /\ DayNumberTaken(p.tripId, p.body.dayNumber)) =>
                  /\ response'.status = 409
                  /\ itineraries' = itineraries
         ]_vars

\* ------------------------------------------------------------------------
\* Properties of the writes of the allocations
\* ------------------------------------------------------------------------
\* the step is the UPDATE of a patch-category request
Patches ==
    /\ request'.route = "PATCH /budget/:category"
    /\ response'.status = 200
    /\ pending' = pending

\* the step finishes an upsert of `category` with `amount`
Upserts(category, amount) ==
    \E p \in pending, q \in pending' :
        /\ p.n = q.n
        /\ p.route = "POST /budget"
        /\ \E k \in 1..Len(p.upserts) :
               /\ p.upserts[k].pc # "done"
               /\ q.upserts[k].pc = "done"
               /\ p.upserts[k].alloc = [category |-> category, amount |-> amount]

\* C21: no update of an allocation is lost, whatever the interleaving of the
\* set-allocations and patch-category requests of a trip.  A row stays; its
\* spentAmount is changed only by the UPDATE of a patch-category request, to
\* the value of that request, so that it is always the value of the last
\* such request, and its allocatedAmount is changed only to the value that
\* the request of the step writes.
C21_NoLostUpdate ==
    [][/\ Len(tripBudgets') >= Len(tripBudgets)
       /\ \A i \in 1..Len(tripBudgets) :
              LET row == tripBudgets[i]
                  new == tripBudgets'[i]
              IN  /\ new.tripId = row.tripId /\ new.category = row.category
                  /\ new.spentAmount # row.spentAmount =>
                         Patches /\ new.spentAmount \in PatchedSpent
                  /\ new.allocatedAmount # row.allocatedAmount =>
                         \/ Patches /\ new.allocatedAmount \in PatchedAllocated
                         \/ Upserts(row.category, new.allocatedAmount)
    ]_vars

\* a patch-category request has set spentAmount 9 after an upsert of FOOD 17
\* found the row and before it writes it
C21_Witness ==
    /\ request.route = "PATCH /budget/:category"
    /\ response.status = 200
    /\ \E i \in 1..Len(tripBudgets) :
           tripBudgets[i].spentAmount = 9 /\ tripBudgets[i].allocatedAmount = 3
    /\ \E p \in pending :
           /\ Len(p.upserts) = 1
           /\ p.upserts[1].pc = "update"
           /\ p.upserts[1].alloc.amount = 17

\* ------------------------------------------------------------------------
\* Properties of ownership
\* ------------------------------------------------------------------------
SharesIn(shares, tripId) == {sh \in shares : sh.tripId = tripId}

\* C22: a request authenticated as U leaves every trip of another user, its
\* days, scheduled activities, allocations and shares as they are, whatever
\* ids the request names.
C22_OnlyOwnerMutates ==
    [][\A id \in DOMAIN trips :
           trips[id].userId # request'.userId =>
               /\ id \in DOMAIN trips'
               /\ Aggregate(trips', itineraries', itineraryActivities',
                            tripBudgets', id)
                      = Aggregate(trips, itineraries, itineraryActivities,
                                  tripBudgets, id)
               /\ SharesIn(sharedTrips', id) = SharesIn(sharedTrips, id)
    ]_vars

\* the requests on the path of another user's trip are refused, and the
\* allocations, which are found by the trip id of the path, are not reached
ForeignPathRefused ==
    [][\A id \in DOMAIN trips :
           (trips[id].userId # request'.userId /\ request' # request) =>
               /\ request'.tripId = id => response'.status = 404 /\ db' = db
               /\ AllocationsIn(tripBudgets', id) = AllocationsIn(tripBudgets, id)
               /\ trips'[id] = trips[id]
    ]_vars

\* ------------------------------------------------------------------------
\* Properties of the stored amounts
\* ------------------------------------------------------------------------
\* C23: every stored allocation has allocatedAmount >= 0 and
\* spentAmount >= 0.
C23_AmountsNonNegative ==
    \A i \in 1..Len(tripBudgets) :
        tripBudgets[i].allocatedAmount >= 0 /\ tripBudgets[i].spentAmount >= 0

\* the amounts stored by set-allocations requests and by duplications are
\* not negative: a row changed or created by one of them has an
\* allocatedAmount above 0 or copied, and the spentAmount it had, or 0
SetAndDuplicateKeepSign ==
    [][request'.route \in {"POST /budget", "POST /trips/:id/duplicate"} =>
        \A i \in 1..Len(tripBudgets') :
            \/ i <= Len(tripBudgets) /\ tripBudgets'[i] = tripBudgets[i]
            \/ /\ \/ tripBudgets'[i].spentAmount = 0
                  \/ /\ i <= Len(tripBudgets)
                     /\ tripBudgets'[i].spentAmount = tripBudgets[i].spentAmount
               /\ \/ tripBudgets'[i].allocatedAmount > 0
                  \/ \E j \in 1..Len(tripBudgets) :
                         tripBudgets'[i].allocatedAmount
                             = tripBudgets[j].allocatedAmount
    ]_vars

\* ------------------------------------------------------------------------
\* Properties of the refusals of the copy routes
\* ------------------------------------------------------------------------
\* C24: a duplicate request for a trip id that does not exist or is owned by
\* another user is answered 404 'Trip not found' and leaves the database as
\* it was.
C24_UnownedDuplicateIs404 ==
    [][(/\ request'.route = "POST /trips/:id/duplicate"
        /\ verifyTripOwnership(request'.tripId, request'.userId) = NoTrip) =>
           /\ response' = sendError("Trip not found", 404)
           /\ db' = db
    ]_vars

\* u2 asked for a duplicate of u1's trip, which has a day and an allocation
C24_Witness ==
    /\ request = [route |-> "POST /trips/:id/duplicate", userId |-> "u2",
                  tripId |-> "t1"]
    /\ response.status = 404
    /\ DaysIn(itineraries, "t1") # {}
    /\ AllocationsIn(tripBudgets, "t1") # {}
    /\ DOMAIN trips = {"t1"}

\* the step answers a copy request through the slug request'.tripId
CopiesThrough(slug) ==
    request'.route = "POST /sharing/:slug/copy" /\ request'.tripId = slug

\* C25: a copy through a share of permission VIEW_ONLY is answered 403 'Copy
\* not allowed for this share', a copy through a slug that no share has is
\* answered 404, and neither creates a trip or any other row.
C25_CopyRefusedWithoutPermission ==
    [][\A slug \in {"s1"} :
           CopiesThrough(slug) =>
               /\ SharesOf(slug) = {} =>
                      /\ response'.status = 404
                      /\ db' = db
               /\ (\E sh \in SharesOf(slug) : sh.permission = "VIEW_ONLY") =>
                      /\ response' = sendError("Copy not allowed for this share",
                                               403)
                      /\ db' = db
    ]_vars

\* u2 asked for a copy through the VIEW_ONLY share of a trip with a day
C25_Witness ==
    /\ request = [route |-> "POST /sharing/:slug/copy", userId |-> "u2",
                  tripId |-> "s1"]
    /\ response.status = 403
    /\ \E sh \in SharesOf("s1") : sh.permission = "VIEW_ONLY"
    /\ DaysIn(itineraries, "t1") # {}
    /\ DOMAIN trips = {"t1"}

\* ------------------------------------------------------------------------
\* Properties of sharing
\* ------------------------------------------------------------------------
SharingRoutes == {"GET /sharing/:slug", "POST /sharing/:slug/copy"}

\* the step answers a request: the date is the same
Answers == now' = now

Revokes ==
    /\ Answers
    /\ request'.route = "DELETE /sharing/trips/:tripId/share/:shareId"
    /\ response'.status = 200

\* C26: a revoked share gives no access.  A revoke request that succeeds
\* removes the share, so that no share has its slug, and from then on, the
\* slug being of no share, every view and every copy through it creates
\* nothing and is answered 404, a copy once its requester is authenticated.
C26_RevokedShareGivesNoAccess ==
    [][/\ Revokes =>
              \E share \in sharedTrips :
                  /\ sharedTrips' = sharedTrips \ {share}
                  /\ \A sh \in sharedTrips' : sh.publicSlug # share.publicSlug
       /\ (/\ Answers
           /\ request'.route \in SharingRoutes
           /\ SharesOf(request'.tripId) = {}) =>
              /\ db' = db
              /\ \/ response'.status = 404
                 \/ /\ request'.route = "POST /sharing/:slug/copy"
                    /\ request'.userId = Anonymous
                    /\ response'.status = 401
    ]_vars

\* the trip was copied through s1 as t2; the share has been revoked since, and
\* u2's next copy through s1 is answered 404
C26_Witness ==
    /\ request = [route |-> "POST /sharing/:slug/copy", userId |-> "u2",
                  tripId |-> "s1"]
    /\ response.status = 404
    /\ sharedTrips = {}
    /\ DOMAIN trips = {"t1", "t2"}

\* a copy request of userId through slug would be accepted now
CopyAccepted(userId, slug) ==
    ENABLED (/\ CopySharedRequest(userId, slug, "t9")
             /\ response'.status = 201)

\* C27: the canCopy of a view agrees with the copy: it is true exactly if a
\* copy request of the same requester through the same slug would be
\* accepted.
C27_CanCopyAgreesWithCopy ==
    (request.route = "GET /sharing/:slug" /\ response.status = 200) =>
        (response.canCopy <=> CopyAccepted(request.userId, request.tripId))

\* where the two agree: the share lets copy and the requester is
\* authenticated, or the share is VIEW_ONLY and the requester is not
CanCopyAgreesElsewhere ==
    (request.route = "GET /sharing/:slug" /\ response.status = 200) =>
        \/ response.canCopy <=> CopyAccepted(request.userId, request.tripId)
        \/ response.permission = "VIEW_ONLY" /\ request.userId # Anonymous
        \/ response.permission # "VIEW_ONLY" /\ request.userId = Anonymous

\* a copy request of userId through slug would create a trip now
CopyCreates(userId, slug) ==
    ENABLED (/\ CopySharedRequest(userId, slug, "t9")
             /\ "t9" \in DOMAIN trips')

\* C28: a share that the view refuses a requester, with 410 because it has
\* expired or with 403 because it is addressed to another user, cannot be
\* used by that requester to copy: the copy creates no trip.
C28_RefusedViewCannotCopy ==
    \A userId \in Requesters :
        ViewResponse(userId, "s1").status \in {410, 403} =>
            ~CopyCreates(userId, "s1")

\* the copy looks at the permission and at nothing else of the share: an
\* authenticated requester copies through a share exactly if its permission
\* is not VIEW_ONLY
CopyDecidedByPermission ==
    \A userId \in Users, sh \in SharesOf("s1") :
        CopyCreates(userId, "s1") <=> sh.permission # "VIEW_ONLY"

\* u2 is refused the view of an expired share that lets copy
ExpiredShareRefusedToView ==
    /\ request = [route |-> "GET /sharing/:slug", userId |-> "u2",
                  tripId |-> "s1"]
    /\ response.status = 410
    /\ CopyCreates("u2", "s1")

\* ------------------------------------------------------------------------
\* Properties of the set-allocations request
\* ------------------------------------------------------------------------
Listed(allocations, category) ==
    \E k \in 1..Len(allocations) : allocations[k].category = category

AmountOf(allocations, category) ==
    LET k == CHOOSE k \in 1..Len(allocations) :
                 allocations[k].category = category
    IN  allocations[k].amount

\* C29: a set-allocations request that succeeds keeps every row there is; it
\* leaves the spentAmount of every row and the rows of the categories it
\* does not list as they are, sets the allocatedAmount of the rows of the
\* listed categories to the listed amounts, and creates, for each listed
\* category without a row, one row with the listed amount and spentAmount 0.
C29_SetAllocationsFrame ==
    [][(request'.route = "POST /budget" /\ response'.status = 200) =>
        \A allocations \in FrameLists :
            SetBudget(request'.userId, request'.tripId, allocations) =>
                /\ Len(tripBudgets') >= Len(tripBudgets)
                /\ \A i \in 1..Len(tripBudgets) :
                       LET row == tripBudgets[i]
                           new == tripBudgets'[i]
                       IN  IF /\ row.tripId = request'.tripId
                              /\ Listed(allocations, row.category)
                           THEN new = [row EXCEPT !.allocatedAmount =
                                          AmountOf(allocations, row.category)]
                           ELSE new = row
                /\ \A i \in (Len(tripBudgets) + 1)..Len(tripBudgets') :
                       LET new == tripBudgets'[i]
                       IN  /\ new.tripId = request'.tripId
                           /\ Listed(allocations, new.category)
                           /\ new.allocatedAmount
                                  = AmountOf(allocations, new.category)
                           /\ new.spentAmount = 0
                           /\ \A b \in AllocationsIn(tripBudgets,
                                                     request'.tripId) :
                                  b.category # new.category
                /\ \A k \in 1..Len(allocations) :
                       \E b \in AllocationsIn(tripBudgets', request'.tripId) :
                           b.category = allocations[k].category
    ]_vars

\* FOOD was spent against and is set anew; TRANSPORT, set to 0 by a patch, is
\* not listed by the last request and ACCOMMODATION is created by it
C29_Witness ==
    /\ request.route = "POST /budget"
    /\ response.status = 200
    /\ Len(tripBudgets) = 3
    /\ tripBudgets[1] = [tripId |-> "t1", category |-> "FOOD",
                         allocatedAmount |-> 23, spentAmount |-> 17]
    /\ tripBudgets[2] = [tripId |-> "t1", category |-> "TRANSPORT",
                         allocatedAmount |-> 0, spentAmount |-> 0]
    /\ tripBudgets[3].category = "ACCOMMODATION"

\* ------------------------------------------------------------------------
\* Properties of add-activity requests that overlap
\* ------------------------------------------------------------------------
OrderIndexesDistinct(rows) ==
    \A i, j \in 1..Len(rows) :
        (i # j /\ rows[i].itineraryId = rows[j].itineraryId)
            => rows[i].orderIndex # rows[j].orderIndex

\* C30: the scheduled activities of a day that were all added by add-activity
\* requests have pairwise distinct orderIndex values, however the requests
\* overlap.
C30_AddedActivitiesOrdered == OrderIndexesDistinct(itineraryActivities)

\* a created row has the orderIndex that follows the largest one the day had
\* when the request read it
CreatedWithReadOrderIndex ==
    [][\A p \in pending :
          AddActivityCreate(p) =>
              itineraryActivities'[Len(itineraryActivities')].orderIndex
                  = p.orderIndex]_vars

\* a request whose create follows its read with no other create for the day
\* in between keeps the orderIndex values of the day distinct
AddedInTurnStaysOrdered ==
    [][\A p \in pending :
          (/\ AddActivityCreate(p)
           /\ p.orderIndex = NextOrderIndex(p.dayId)
           /\ OrderIndexesDistinct(itineraryActivities))
              => OrderIndexesDistinct(itineraryActivities')]_vars

\* two requests for day 1 that both read an empty day
BothReadEmptyDay ==
    /\ Len(itineraryActivities) = 2
    /\ itineraryActivities[1].itineraryId = 1
    /\ itineraryActivities[2].itineraryId = 1
    /\ itineraryActivities[1].orderIndex = 0
    /\ itineraryActivities[2].orderIndex = 0
====
